---- MODULE Spec2Model ----
(***************************************************************************)
(* State-machine model of the SPH fluid solver: the particle store         *)
(* (src/src/core/particle.py), the uniform spatial hash grid               *)
(* (src/src/core/spatial_hash.py), the kernels (src/src/core/kernel.py)    *)
(* and the solver pipeline (src/src/core/sph_solver.py).                   *)
(*                                                                         *)
(* Arithmetic is fixed point on integers.  Lengths are counted in units    *)
(* of half a millimetre (so the wall offset epsilon = 0.001 m is 2),       *)
(* quotients of the floating-point code are truncated to integers, and     *)
(* kernel values are counted in units of the kernel's own normalisation    *)
(* coefficient (315/(64 pi h^9) for Poly6, 45/(pi h^6) for Spiky and the   *)
(* viscosity Laplacian); the sign of each coefficient is kept.             *)
(***************************************************************************)
EXTENDS Integers, Sequences, FiniteSets, TLC

VARIABLES
    domain_size,    \* SPHSolver.domain_size, a 3-vector
    h,              \* SPHSolver.h (smoothing length)
    particle_mass,  \* SPHSolver.particle_mass
    rest_density,   \* SPHSolver.rest_density
    gas_constant,   \* SPHSolver.gas_constant
    viscosity,      \* SPHSolver.viscosity
    gravity,        \* SPHSolver.gravity, a 3-vector
    dt,             \* SPHSolver.dt
    particles,      \* SPHSolver.particles, the ParticleSystem object
    n_active,       \* SPHSolver.n_active
    spatial_grid,   \* SPHSolver.spatial_grid.grid: cell -> list of indices
    time,           \* SPHSolver.time
    step_count,     \* SPHSolver.step_count
    call,           \* the last completed call: its name, return value, exception
    run_pc,         \* position of the caller inside SPHSolver.run
    run_frame       \* the locals of SPHSolver.run and what its callback saw

vars == <<domain_size, h, particle_mass, rest_density, gas_constant, viscosity,
          gravity, dt, particles, n_active, spatial_grid, time, step_count,
          call, run_pc, run_frame>>

solver_params == <<domain_size, h, particle_mass, rest_density, gas_constant,
                   viscosity, gravity, dt>>

-----------------------------------------------------------------------------
(* Bounds of the model *)

\* step() is not called once step_count has reached this
MaxSteps == 2
\* run() is not called when it would take step_count beyond this
MaxRunSteps == 3
\* add_fluid_box is not taken once n_active has reached this
MaxActive == 2
\* run(duration) is called with duration in 0..MaxDuration
MaxDuration == 2
\* get_neighbors calls between two builds
MaxQueries == 2
\* step() calls on the falling particle
MaxFallSteps == 4
\* rows of the array handed to a vectorized kernel
MaxVectors == 3

(* Program constants, in the model's units *)

\* epsilon = 0.001 (m), in half-millimetres
Epsilon == 2
\* damping = 0.5, as the divisor 1/0.5
DampingDivisor == 2
\* the density floor rest_density * 0.01, as the divisor 1/0.01
DensityFloorDivisor == 100
\* np.ones(max_particles) * 0.001, in units of 0.001 Pa s
InitialViscosity == 1
\* np.random.uniform(-0.1, 0.1, 3) * spacing, as the divisor 1/0.1
JitterDivisor == 10
\* the singularity threshold 1e-6 (m): this many make one half-millimetre
ThresholdsPerUnit == 500

-----------------------------------------------------------------------------
(* Integer and vector helpers *)

Axes == 1..3
Zero3 == <<0, 0, 0>>

Abs(x) == IF x < 0 THEN -x ELSE x
Min(a, b) == IF a <= b THEN a ELSE b
Max(a, b) == IF a >= b THEN a ELSE b

\* Python's a / b followed by int(): the quotient truncated toward zero (b # 0)
Quot(a, b) ==
    IF b > 0
    THEN (IF a >= 0 THEN a \div b ELSE -((-a) \div b))
    ELSE (IF a >= 0 THEN -(a \div (-b)) ELSE (-a) \div (-b))

\* np.floor(a / b) (b # 0)
FloorDiv(a, b) == IF b > 0 THEN a \div b ELSE (-a) \div (-b)

VAdd(a, b) == [k \in Axes |-> a[k] + b[k]]
VSub(a, b) == [k \in Axes |-> a[k] - b[k]]
VScale(a, s) == [k \in Axes |-> a[k] * s]
Dot(a, b) == a[1] * b[1] + a[2] * b[2] + a[3] * b[3]

\* integer part of the square root
ISqrt(n) == CHOOSE k \in 0..n : k * k <= n /\ (k + 1) * (k + 1) > n

\* np.linalg.norm(r)
Norm(r) == ISqrt(Dot(r, r))

\* a support test on the largest component instead of the Euclidean norm
NormGt_chebyshev(r, hh) ==
    hh < 0 \/ \A k \in Axes : r[k] * r[k] > hh * hh

\* np.linalg.norm(r) > h, decided exactly on the squares
NormGt(r, hh) == hh < 0 \/ Dot(r, r) > hh * hh

-----------------------------------------------------------------------------
(* ParticleSystem (particle.py) *)

\* Python indexing of an array of length n: a negative index counts from the end
PyIndex(i, n) == IF i < 0 THEN n + i ELSE i

Slots(P) == 0..(P.max_particles - 1)

\* ParticleSystem.__init__
NewParticleSystem(max_particles) ==
    [ max_particles |-> max_particles,
      n_particles   |-> 0,
      positions     |-> [s \in 0..(max_particles - 1) |-> Zero3],
      velocities    |-> [s \in 0..(max_particles - 1) |-> Zero3],
      forces        |-> [s \in 0..(max_particles - 1) |-> Zero3],
      masses        |-> [s \in 0..(max_particles - 1) |-> 0],
      densities     |-> [s \in 0..(max_particles - 1) |-> 0],
      pressures     |-> [s \in 0..(max_particles - 1) |-> 0],
      colors        |-> [s \in 0..(max_particles - 1) |-> Zero3],
      viscosities   |-> [s \in 0..(max_particles - 1) |-> InitialViscosity] ]

\* a guard that lets one append through on a full store
add_particle_full_late(P) == P.n_particles > P.max_particles

\* the guard of add_particle: the store is full
add_particle_full(P) == P.n_particles >= P.max_particles

\* an append that leaves the slot's density, pressure and force as they were
add_particle_store_stale(P, position, velocity, mass, color, visc) ==
    LET idx == PyIndex(P.n_particles, P.max_particles)
    IN  [ P EXCEPT !.positions[idx]   = position,
                   !.velocities[idx]  = velocity,
                   !.masses[idx]      = mass,
                   !.colors[idx]      = color,
                   !.viscosities[idx] = visc,
                   !.n_particles      = P.n_particles + 1 ]

\* ParticleSystem.add_particle, the store after a successful append
add_particle_store(P, position, velocity, mass, color, visc) ==
    LET idx == PyIndex(P.n_particles, P.max_particles)
    IN  [ P EXCEPT !.positions[idx]   = position,
                   !.velocities[idx]  = velocity,
                   !.masses[idx]      = mass,
                   !.colors[idx]      = color,
                   !.viscosities[idx] = visc,
                   !.densities[idx]   = 0,
                   !.pressures[idx]   = 0,
                   !.forces[idx]      = Zero3,
                   !.n_particles      = P.n_particles + 1 ]

\* ParticleSystem.add_particle: the store after the call, the index returned
\* (0 when it raises) and the exception raised
add_particle(P, position, velocity, mass, color, visc) ==
    IF add_particle_full(P)
    THEN [ particles |-> P, ret |-> 0, raised |-> "RuntimeError" ]
    ELSE [ particles |-> add_particle_store(P, position, velocity, mass, color, visc),
           ret |-> P.n_particles, raised |-> "none" ]

\* a guard that lets the index N through
remove_particle_skips_late(P, index) == index > P.n_particles

\* the guard of remove_particle: the index names no live slot
remove_particle_skips(P, index) == index >= P.n_particles

\* a removal that does not carry the last slot's viscosity over
remove_particle_store_partial(P, index) ==
    LET last_idx == P.n_particles - 1
        i == PyIndex(index, P.max_particles)
        l == PyIndex(last_idx, P.max_particles)
    IN  IF index # last_idx
        THEN [ P EXCEPT !.positions[i]   = P.positions[l],
                        !.velocities[i]  = P.velocities[l],
                        !.forces[i]      = P.forces[l],
                        !.masses[i]      = P.masses[l],
                        !.densities[i]   = P.densities[l],
                        !.pressures[i]   = P.pressures[l],
                        !.colors[i]      = P.colors[l],
                        !.n_particles    = P.n_particles - 1 ]
        ELSE [ P EXCEPT !.n_particles = P.n_particles - 1 ]

\* ParticleSystem.remove_particle, the store after a removal that is not skipped
remove_particle_store(P, index) ==
    LET last_idx == P.n_particles - 1
        i == PyIndex(index, P.max_particles)
        l == PyIndex(last_idx, P.max_particles)
    IN  IF index # last_idx
        THEN [ P EXCEPT !.positions[i]   = P.positions[l],
                        !.velocities[i]  = P.velocities[l],
                        !.forces[i]      = P.forces[l],
                        !.masses[i]      = P.masses[l],
                        !.densities[i]   = P.densities[l],
                        !.pressures[i]   = P.pressures[l],
                        !.colors[i]      = P.colors[l],
                        !.viscosities[i] = P.viscosities[l],
                        !.n_particles    = P.n_particles - 1 ]
        ELSE [ P EXCEPT !.n_particles = P.n_particles - 1 ]

\* ParticleSystem.remove_particle: the store after the call
remove_particle(P, index) ==
    IF remove_particle_skips(P, index) THEN P ELSE remove_particle_store(P, index)

\* ParticleSystem.remove_particle with the index rules of the arrays: the guard
\* lets every negative index through; positions[index] = positions[last_idx]
\* raises IndexError, before anything is written, when one of the two is not an
\* index of the arrays; index = last_idx only lowers the count
remove_particle_indexed(P, index) ==
    LET last_idx == P.n_particles - 1
    IN  IF remove_particle_skips(P, index)
        THEN [ particles |-> P, raised |-> "none" ]
        ELSE IF /\ index # last_idx
                /\ \/ PyIndex(index, P.max_particles) \notin Slots(P)
                   \/ PyIndex(last_idx, P.max_particles) \notin Slots(P)
             THEN [ particles |-> P, raised |-> "IndexError" ]
             ELSE [ particles |-> remove_particle_store(P, index), raised |-> "none" ]

-----------------------------------------------------------------------------
(* SPHKernel (kernel.py) *)

\* SPHKernel.poly6: coef * (h^2 - |r|^2)^3 inside the support, 0 outside
poly6(r, hh) ==
    IF NormGt(r, hh)
    THEN 0
    ELSE LET d == hh * hh - Dot(r, r) IN d * d * d

\* |r| < 1e-6 and |r| > 1e-6 for lengths measured in a unit of which `per_unit`
\* thresholds make one: decided exactly on the squares
BelowThreshold(r, per_unit) == per_unit * per_unit * Dot(r, r) < 1
AboveThreshold(r, per_unit) == per_unit * per_unit * Dot(r, r) > 1

\* SPHKernel.spiky_gradient in that unit: coef * (h - |r|)^2 * r / |r| with
\* coef < 0; the zero vector outside the support and at |r| < 1e-6
spiky_gradient_in(r, hh, per_unit) ==
    IF NormGt(r, hh) \/ BelowThreshold(r, per_unit)
    THEN Zero3
    ELSE LET r_norm == Norm(r)
         IN  [k \in Axes |-> Quot(-((hh - r_norm) * (hh - r_norm)) * r[k], r_norm)]

\* SPHKernel.spiky_gradient on the solver's half-millimetre lattice, where the
\* threshold is passed by r = 0 only
spiky_gradient(r, hh) == spiky_gradient_in(r, hh, ThresholdsPerUnit)

\* SPHKernel.viscosity_laplacian: coef * (h - |r|) inside the support
viscosity_laplacian(r, hh) ==
    IF NormGt(r, hh) THEN 0 ELSE hh - Norm(r)

-----------------------------------------------------------------------------
(* VectorizedKernels (kernel.py): r_vectors is an (N, 3) array, here a sequence
   of N displacements; a result is [value, raised] *)

\* mask = r_norms <= h
InSupport(r, hh) == ~NormGt(r, hh)

\* VectorizedKernels.poly6_vectorized
poly6_vectorized(r_vectors, hh) ==
    [ value  |-> [e \in DOMAIN r_vectors |->
                    IF InSupport(r_vectors[e], hh)
                    THEN LET d == hh * hh - Dot(r_vectors[e], r_vectors[e])
                         IN  d * d * d
                    ELSE 0],
      raised |-> "none" ]

\* VectorizedKernels.viscosity_laplacian_vectorized
viscosity_laplacian_vectorized(r_vectors, hh) ==
    [ value  |-> [e \in DOMAIN r_vectors |->
                    IF InSupport(r_vectors[e], hh)
                    THEN hh - Norm(r_vectors[e])
                    ELSE 0],
      raised |-> "none" ]

\* mask = (r_norms <= h) & (r_norms > 1e-6)
SpikyMask(r_vectors, hh, per_unit) ==
    [e \in DOMAIN r_vectors |->
        InSupport(r_vectors[e], hh) /\ AboveThreshold(r_vectors[e], per_unit)]

\* the rows the mask selects, in order
RECURSIVE Selected(_, _)
Selected(mask, e) ==
    IF e > Len(mask) THEN <<>>
    ELSE (IF mask[e] THEN <<e>> ELSE <<>>) \o Selected(mask, e + 1)

\* VectorizedKernels.spiky_gradient_vectorized.  For the K selected rows the
\* factor (h - r_norms[mask].squeeze())**2 has shape (K,) and r_vectors[mask]
\* has shape (K, 3): with K = 1 (or N = 1) the factor is a scalar; with K = 3
\* numpy broadcasts the factor along the components, so that component k of
\* every row is scaled by the factor of the k-th selected row; any other K
\* raises ValueError (the shapes do not broadcast).
spiky_gradient_vectorized(r_vectors, hh, per_unit) ==
    LET mask == SpikyMask(r_vectors, hh, per_unit)
        sel  == Selected(mask, 1)
        K    == Len(sel)
        factor(e) == (hh - Norm(r_vectors[e])) * (hh - Norm(r_vectors[e]))
        scaled(e, k) ==
            IF K = 3 /\ Len(r_vectors) # 1 THEN factor(sel[k]) ELSE factor(e)
    IN  IF K \in {0, 1, 3} \/ Len(r_vectors) = 1
        THEN [ value  |-> [e \in DOMAIN r_vectors |->
                              IF mask[e]
                              THEN [k \in Axes |->
                                      Quot(-(scaled(e, k)) * r_vectors[e][k],
                                           Norm(r_vectors[e]))]
                              ELSE Zero3],
               raised |-> "none" ]
        ELSE [ value |-> <<>>, raised |-> "ValueError" ]

-----------------------------------------------------------------------------
(* SpatialHashGrid (spatial_hash.py) *)

\* SpatialHashGrid.__init__: an empty defaultdict(list)
EmptyGrid == [c \in {} |-> <<>>]

\* a cell computed by truncation toward zero instead of floor
hash_position_truncating(position, cell_size) ==
    << Quot(position[1], cell_size),
       Quot(position[2], cell_size),
       Quot(position[3], cell_size) >>

\* SpatialHashGrid.hash_position (cell_size # 0)
hash_position(position, cell_size) ==
    << FloorDiv(position[1], cell_size),
       FloorDiv(position[2], cell_size),
       FloorDiv(position[3], cell_size) >>

\* the loop of SpatialHashGrid.build from index idx on: grid[cell].append(idx)
RECURSIVE build_from(_, _, _, _, _)
build_from(grid, positions, idx, n, cell_size) ==
    IF idx >= n
    THEN grid
    ELSE LET cell == hash_position(positions[idx], cell_size)
             g2 == IF cell \in DOMAIN grid
                   THEN [grid EXCEPT ![cell] = Append(@, idx)]
                   ELSE grid @@ (cell :> <<idx>>)
         IN  build_from(g2, positions, idx + 1, n, cell_size)

\* a clear that leaves the buckets of the earlier build in place
clear_keeps(grid) == grid

\* self.grid.clear(): no key of the earlier grid is left
clear(grid) == [c \in {} |-> <<>>]

\* SpatialHashGrid.build of the first n positions on a grid holding `grid`:
\* clear, then insert in order
build(grid, positions, n, cell_size) ==
    build_from(clear(grid), positions, 0, n, cell_size)

\* offsets that leave out the cells below: (0, 1) on every axis instead of (-1, 0, 1)
Offset_upward(n) ==
    << Max(((n - 1) \div 9) - 1, 0), Max((((n - 1) \div 3) % 3) - 1, 0),
       Max(((n - 1) % 3) - 1, 0) >>

\* the n-th (1..27) offset (di, dj, dk) of the loops of get_neighbors
Offset(n) == << ((n - 1) \div 9) - 1, (((n - 1) \div 3) % 3) - 1, ((n - 1) % 3) - 1 >>

\* the loops of get_neighbors from the n-th offset on
RECURSIVE neighbors_from(_, _, _)
neighbors_from(grid, cell, n) ==
    IF n > 27
    THEN <<>>
    ELSE LET neighbor_cell == VAdd(cell, Offset(n))
         IN  (IF neighbor_cell \in DOMAIN grid THEN grid[neighbor_cell] ELSE <<>>)
             \o neighbors_from(grid, cell, n + 1)

\* SpatialHashGrid.get_neighbors (the radius argument is not used by the code)
get_neighbors(grid, position, cell_size) ==
    neighbors_from(grid, hash_position(position, cell_size), 1)

-----------------------------------------------------------------------------
(* SPHSolver (sph_solver.py): the phases of a step, as functions of the store *)

\* sum of f[j] over the entries j of the list s from position n on
RECURSIVE SumOver(_, _, _)
SumOver(s, f, n) ==
    IF n > Len(s) THEN 0 ELSE f[s[n]] + SumOver(s, f, n + 1)

\* a density summed over the candidates other than i itself
density_of_without_self(P, grid, i, hh, rho0) ==
    LET pos_i == P.positions[i]
        neighbors == get_neighbors(grid, pos_i, hh)
        term == [j \in Slots(P) |->
                    IF j = i THEN 0
                    ELSE P.masses[j] * poly6(VSub(pos_i, P.positions[j]), hh)]
        density == SumOver(neighbors, term, 1)
    IN  Max(density, Quot(rho0, DensityFloorDivisor))

\* the density of particle i: the Poly6 sum over its candidates, then the floor
density_of(P, grid, i, hh, rho0) ==
    LET pos_i == P.positions[i]
        neighbors == get_neighbors(grid, pos_i, hh)
        term == [j \in Slots(P) |->
                    P.masses[j] * poly6(VSub(pos_i, P.positions[j]), hh)]
        density == SumOver(neighbors, term, 1)
    IN  Max(density, Quot(rho0, DensityFloorDivisor))

\* the equation of state P = k (rho - rho0)
pressure_of(density, rho0, k) == k * (density - rho0)

\* SPHSolver.compute_density_pressure on the first n slots.  positions[:n] is
\* clipped to the arrays' length, the loop over range(n) is not: it raises
\* IndexError at slot max_particles.  With a cell size of 0 hash_position
\* raises on the first position, after the grid was cleared.
compute_density_pressure(P, old_grid, n, hh, rho0, k) ==
    LET cnt == Min(n, P.max_particles)
    IN  IF hh = 0 /\ cnt > 0
        THEN [ particles |-> P, grid |-> clear(old_grid), raised |-> "OverflowError" ]
        ELSE LET grid == build(old_grid, P.positions, cnt, hh)
                 rho == [i \in Slots(P) |->
                            IF i < cnt THEN density_of(P, grid, i, hh, rho0)
                            ELSE P.densities[i]]
                 prs == [i \in Slots(P) |->
                            IF i < cnt THEN pressure_of(rho[i], rho0, k)
                            ELSE P.pressures[i]]
             IN  [ particles |-> [P EXCEPT !.densities = rho, !.pressures = prs],
                   grid      |-> grid,
                   raised    |-> IF n > P.max_particles THEN "IndexError" ELSE "none" ]

\* the pressure force on i from j:  -m_j (P_i + P_j)/2 / rho_j * grad W
pressure_term(P, i, j, hh) ==
    IF P.densities[j] > 0
    THEN LET grad_W == spiky_gradient(VSub(P.positions[i], P.positions[j]), hh)
         IN  [k \in Axes |->
                Quot((-P.masses[j]) * (P.pressures[i] + P.pressures[j]) * grad_W[k],
                     2 * P.densities[j])]
    ELSE Zero3

\* the viscosity force on i from j:  mu_i m_j (v_j - v_i) / rho_j * lap W
viscosity_term(P, i, j, hh) ==
    IF P.densities[j] > 0
    THEN LET lap_W == viscosity_laplacian(VSub(P.positions[i], P.positions[j]), hh)
             dv == VSub(P.velocities[j], P.velocities[i])
         IN  [k \in Axes |->
                Quot(P.viscosities[i] * P.masses[j] * dv[k] * lap_W, P.densities[j])]
    ELSE Zero3

\* the force on particle i: pressure and viscosity over the candidates j # i, and gravity
force_of(P, grid, i, hh, g) ==
    LET neighbors == get_neighbors(grid, P.positions[i], hh)
        pair == [j \in Slots(P) |->
                    IF i = j THEN Zero3
                    ELSE VAdd(pressure_term(P, i, j, hh), viscosity_term(P, i, j, hh))]
        f_gravity == VScale(g, P.masses[i])
    IN  [k \in Axes |->
            SumOver(neighbors, [j \in Slots(P) |-> pair[j][k]], 1) + f_gravity[k]]

\* SPHSolver.compute_forces on the first n slots (n <= max_particles)
compute_forces(P, grid, n, hh, g) ==
    [P EXCEPT !.forces = [i \in Slots(P) |->
                            IF i < n THEN force_of(P, grid, i, hh, g)
                            ELSE P.forces[i]]]

\* a reflection that mirrors the position at the wall instead of placing it at
\* the wall offset
reflect_axis_mirroring(p, v, extent) ==
    IF p < 0
    THEN [pos |-> -p, vel |-> Quot(Abs(v), DampingDivisor)]
    ELSE IF p > extent
         THEN [pos |-> 2 * extent - p, vel |-> -Quot(Abs(v), DampingDivisor)]
         ELSE [pos |-> p, vel |-> v]

\* SPHSolver.apply_boundary_conditions on one axis: the position and velocity
\* component after the reflection
reflect_axis(p, v, extent) ==
    IF p < 0
    THEN [pos |-> Epsilon, vel |-> Quot(Abs(v), DampingDivisor)]
    ELSE IF p > extent
         THEN [pos |-> extent - Epsilon, vel |-> -Quot(Abs(v), DampingDivisor)]
         ELSE [pos |-> p, vel |-> v]

\* SPHSolver.apply_boundary_conditions
apply_boundary_conditions(pos, vel, L) ==
    [ pos |-> [k \in Axes |-> reflect_axis(pos[k], vel[k], L[k]).pos],
      vel |-> [k \in Axes |-> reflect_axis(pos[k], vel[k], L[k]).vel] ]

\* an explicit Euler update: the position moves with the velocity before the step
advance_particle_explicit(P, i, tau) ==
    LET acceleration == IF P.masses[i] > 0
                        THEN [k \in Axes |-> Quot(P.forces[i][k], P.masses[i])]
                        ELSE Zero3
        velocity == VAdd(P.velocities[i], VScale(acceleration, tau))
        position == VAdd(P.positions[i], VScale(P.velocities[i], tau))
    IN  [ pos |-> position, vel |-> velocity ]

\* the velocity and position update of particle i in SPHSolver.integrate, before
\* the boundary conditions are applied
advance_particle(P, i, tau) ==
    LET acceleration == IF P.masses[i] > 0
                        THEN [k \in Axes |-> Quot(P.forces[i][k], P.masses[i])]
                        ELSE Zero3
        velocity == VAdd(P.velocities[i], VScale(acceleration, tau))
        position == VAdd(P.positions[i], VScale(velocity, tau))
    IN  [ pos |-> position, vel |-> velocity ]

\* the body of the loop of SPHSolver.integrate for particle i
integrate_particle(P, i, tau, L) ==
    LET m == advance_particle(P, i, tau)
    IN  apply_boundary_conditions(m.pos, m.vel, L)

\* an integration with absorbing walls: a particle whose update leaves the
\* domain is moved as before and loses its mass
integrate_absorbing(P, n, tau, L) ==
    [P EXCEPT !.positions  = [i \in Slots(P) |->
                                IF i < n THEN integrate_particle(P, i, tau, L).pos
                                ELSE P.positions[i]],
              !.velocities = [i \in Slots(P) |->
                                IF i < n THEN integrate_particle(P, i, tau, L).vel
                                ELSE P.velocities[i]],
              !.masses     = [i \in Slots(P) |->
                                IF i < n /\ integrate_particle(P, i, tau, L).pos
                                              # advance_particle(P, i, tau).pos
                                THEN 0 ELSE P.masses[i]]]

\* SPHSolver.integrate on the first n slots (n <= max_particles)
integrate(P, n, tau, L) ==
    [P EXCEPT !.positions  = [i \in Slots(P) |->
                                IF i < n THEN integrate_particle(P, i, tau, L).pos
                                ELSE P.positions[i]],
              !.velocities = [i \in Slots(P) |->
                                IF i < n THEN integrate_particle(P, i, tau, L).vel
                                ELSE P.velocities[i]]]

\* SPHSolver.step: what the solver holds after the call, and what it raised
step ==
    IF n_active = 0
    THEN [ particles |-> particles, grid |-> spatial_grid, time |-> time,
           step_count |-> step_count, raised |-> "none" ]
    ELSE LET d == compute_density_pressure(particles, spatial_grid, n_active, h,
                                           rest_density, gas_constant)
         IN  IF d.raised # "none"
             THEN [ particles |-> d.particles, grid |-> d.grid, time |-> time,
                    step_count |-> step_count, raised |-> d.raised ]
             ELSE LET f == compute_forces(d.particles, d.grid, n_active, h, gravity)
                      m == integrate(f, n_active, dt, domain_size)
                  IN  [ particles |-> m, grid |-> d.grid, time |-> time + dt,
                        step_count |-> step_count + 1, raised |-> "none" ]

\* the loop of compute_density_pressure from particle i on, writing the store
\* in place
RECURSIVE density_loop(_, _, _, _, _, _, _)
density_loop(P, grid, i, n, hh, rho0, k) ==
    IF i >= n
    THEN P
    ELSE LET density == density_of(P, grid, i, hh, rho0)
         IN  density_loop([P EXCEPT !.densities[i] = density,
                                    !.pressures[i] = pressure_of(density, rho0, k)],
                          grid, i + 1, n, hh, rho0, k)

\* the loop of compute_forces from particle i on, writing the store in place
RECURSIVE forces_loop(_, _, _, _, _, _)
forces_loop(P, grid, i, n, hh, g) ==
    IF i >= n
    THEN P
    ELSE forces_loop([P EXCEPT !.forces[i] = force_of(P, grid, i, hh, g)],
                     grid, i + 1, n, hh, g)

\* the loop of integrate from particle i on: each particle is moved and then
\* reflected before the next one is moved
RECURSIVE integrate_loop(_, _, _, _, _)
integrate_loop(P, i, n, tau, L) ==
    IF i >= n
    THEN P
    ELSE LET r == integrate_particle(P, i, tau, L)
         IN  integrate_loop([P EXCEPT !.positions[i] = r.pos, !.velocities[i] = r.vel],
                            i + 1, n, tau, L)

\* one loop that computes the force of a particle, moves and reflects it, then
\* turns to the next particle
RECURSIVE fused_loop(_, _, _, _, _, _, _, _)
fused_loop(P, grid, i, n, hh, g, tau, L) ==
    IF i >= n
    THEN P
    ELSE LET F == [P EXCEPT !.forces[i] = force_of(P, grid, i, hh, g)]
             r == integrate_particle(F, i, tau, L)
         IN  fused_loop([F EXCEPT !.positions[i] = r.pos, !.velocities[i] = r.vel],
                        grid, i + 1, n, hh, g, tau, L)

\* a step whose force and integration loops are fused into one
step_fused ==
    LET grid == build(spatial_grid, particles.positions, n_active, h)
        d == density_loop(particles, grid, 0, n_active, h, rest_density, gas_constant)
    IN  [ particles |-> fused_loop(d, grid, 0, n_active, h, gravity, dt, domain_size),
          grid |-> grid, time |-> time + dt, step_count |-> step_count + 1,
          raised |-> "none" ]

\* SPHSolver.step as the loops of its three methods run, one particle after the
\* other, each writing the arrays in place (0 < n_active <= max_particles, h # 0)
step_in_place ==
    LET grid == build(spatial_grid, particles.positions, n_active, h)
        d == density_loop(particles, grid, 0, n_active, h, rest_density, gas_constant)
        z == [d EXCEPT !.forces = [i \in Slots(d) |->
                                     IF i < n_active THEN Zero3 ELSE d.forces[i]]]
        f == forces_loop(z, grid, 0, n_active, h, gravity)
        m == integrate_loop(f, 0, n_active, dt, domain_size)
    IN  [ particles |-> m, grid |-> grid, time |-> time + dt,
          step_count |-> step_count + 1, raised |-> "none" ]

\* the body of the loop of compute_density_pressure for particle i
density_iteration(P, grid, i) ==
    LET density == density_of(P, grid, i, h, rest_density)
    IN  [P EXCEPT !.densities[i] = density,
                  !.pressures[i] = pressure_of(density, rest_density, gas_constant)]

\* a force iteration that also gives every other candidate j the reaction to
\* the pair force it computed for i
forces_iteration_symmetric(P, grid, i) ==
    LET neighbors == get_neighbors(grid, P.positions[i], h)
        pair == [j \in Slots(P) |->
                    IF j = i \/ (\A q \in DOMAIN neighbors : neighbors[q] # j) THEN Zero3
                    ELSE VAdd(pressure_term(P, i, j, h), viscosity_term(P, i, j, h))]
    IN  [P EXCEPT !.forces = [j \in Slots(P) |->
                                IF j = i THEN force_of(P, grid, i, h, gravity)
                                ELSE VSub(P.forces[j], pair[j])]]

\* the body of the loop of compute_forces for particle i
forces_iteration(P, grid, i) ==
    [P EXCEPT !.forces[i] = force_of(P, grid, i, h, gravity)]

\* the body of the loop of integrate for particle i
integrate_iteration(P, grid, i) ==
    LET r == integrate_particle(P, i, dt, domain_size)
    IN  [P EXCEPT !.positions[i] = r.pos, !.velocities[i] = r.vel]

\* the loop body of one of the three passes
iteration(phase, P, grid, i) ==
    CASE phase = "density"   -> density_iteration(P, grid, i)
      [] phase = "force"     -> forces_iteration(P, grid, i)
      [] phase = "integrate" -> integrate_iteration(P, grid, i)

\* a pass whose loop visits the particles in the order of the list `order`,
\* from its q-th entry on
RECURSIVE pass(_, _, _, _, _)
pass(phase, P, grid, order, q) ==
    IF q > Len(order)
    THEN P
    ELSE pass(phase, iteration(phase, P, grid, order[q]), grid, order, q + 1)

\* the get_neighbors calls of the loop of a pass from particle i on: for each,
\* the grid it is made on and the positions and live count the store holds then
RECURSIVE query_log(_, _, _, _, _)
query_log(phase, P, grid, i, n) ==
    IF i >= n
    THEN <<>>
    ELSE << [ phase |-> phase, i |-> i, grid |-> grid,
              positions |-> P.positions, live |-> P.n_particles ] >>
         \o query_log(phase, iteration(phase, P, grid, i), grid, i + 1, n)

\* the get_neighbors calls of SPHSolver.step, in the order they are made: those
\* of the density pass, on the grid build has just made, then those of the
\* force pass
step_queries ==
    LET grid == build(spatial_grid, particles.positions, n_active, h)
        d == density_loop(particles, grid, 0, n_active, h, rest_density, gas_constant)
        z == [d EXCEPT !.forces = [i \in Slots(d) |->
                                     IF i < n_active THEN Zero3 ELSE d.forces[i]]]
    IN  query_log("density", particles, grid, 0, n_active)
        \o query_log("force", z, grid, 0, n_active)

\* the orders in which a loop can visit the particles 0 .. n-1
Orders(n) ==
    { o \in [1..n -> 0..(n - 1)] : \A a, b \in 1..n : o[a] = o[b] => a = b }

\* the list 0, 1, ..., n-1 of the indices of a slice [:n]
Indices(n) == [m \in 1..n |-> m - 1]

\* np.mean over the first n entries of an array (n > 0), truncated
Mean(f, n) == Quot(SumOver(Indices(n), f, 1), n)

\* SpatialHashGrid.get_cells_info
get_cells_info(grid) ==
    IF DOMAIN grid = {}
    THEN [ num_cells |-> 0, num_particles |-> 0,
           avg_particles_per_cell |-> 0, max_particles_per_cell |-> 0 ]
    ELSE LET particles_per_cell == [c \in DOMAIN grid |-> Len(grid[c])]
             cells == CHOOSE q \in [1..Cardinality(DOMAIN grid) -> DOMAIN grid] :
                         \A c \in DOMAIN grid : \E m \in DOMAIN q : q[m] = c
             total == SumOver(cells, particles_per_cell, 1)
         IN  [ num_cells |-> Cardinality(DOMAIN grid),
               num_particles |-> total,
               avg_particles_per_cell |-> Quot(total, Cardinality(DOMAIN grid)),
               max_particles_per_cell |->
                   CHOOSE x \in { particles_per_cell[c] : c \in DOMAIN grid } :
                       \A c \in DOMAIN grid : particles_per_cell[c] <= x ]

\* SPHSolver.get_info: the dictionary returned; the slices [:n_active] end with
\* the arrays
get_info ==
    IF n_active = 0
    THEN [ time |-> time, step |-> step_count, particles |-> 0,
           avg_density |-> 0, avg_pressure |-> 0, avg_velocity |-> 0 ]
    ELSE LET cnt == Min(n_active, particles.max_particles)
             speeds == [i \in Slots(particles) |-> Norm(particles.velocities[i])]
         IN  [ time |-> time, step |-> step_count, particles |-> n_active,
               avg_density |-> Mean(particles.densities, cnt),
               avg_pressure |-> Mean(particles.pressures, cnt),
               avg_velocity |-> Mean(speeds, cnt),
               max_velocity |-> CHOOSE x \in { speeds[i] : i \in 0..(cnt - 1) } :
                                    \A i \in 0..(cnt - 1) : speeds[i] <= x,
               grid_info |-> get_cells_info(spatial_grid) ]

\* a clip that bounds from above only
Clip_upper(x, lo, hi) == Min(x, hi)

\* np.clip(x, lo, hi)
Clip(x, lo, hi) == Min(Max(x, lo), hi)

\* int(s / spacing) for spacing = (volume / n) ** (1/3): the largest m with
\* m^3 * volume <= s^3 * n  (s, volume, n positive)
int_div_spacing(s, volume, n) ==
    CHOOSE m \in 0..(s * n) :
        /\ m * m * m * volume <= s * s * s * n
        /\ (m + 1) * (m + 1) * (m + 1) * volume > s * s * s * n

\* spacing = (volume / n) ** (1/3), exact for the boxes enumerated below
spacing_of(volume, n) ==
    CHOOSE d \in 0..volume :
        d * d * d * n <= volume /\ (d + 1) * (d + 1) * (d + 1) * n > volume

\* the values np.random.uniform(-0.1, 0.1, 3) * spacing can take on the lattice
Jitters(spacing) ==
    [Axes -> (-Quot(spacing, JitterDivisor))..Quot(spacing, JitterDivisor)]

\* fluid_properties.get(key, default)
Get(fluid_properties, key, default) ==
    IF key \in DOMAIN fluid_properties THEN fluid_properties[key] ELSE default

\* the default colour (0.2, 0.5, 1.0) of add_fluid_box, in tenths
DefaultColor == <<2, 5, 10>>

\* lattice sites numbered in the other order: k slowest, i fastest
box_site_reversed(s, nx, ny, nz) == << s % nx, (s \div nx) % ny, s \div (nx * ny) >>

\* the s-th (0-based) lattice site (i, j, k) the loops over range(nx), range(ny),
\* range(nz) visit: i slowest, k fastest
box_site(s, nx, ny, nz) == << s \div (ny * nz), (s \div nz) % ny, s % nz >>

\* the position of the particle placed at lattice site `site`: the site, plus
\* the jitter, clipped to the domain
box_position(position, spacing, site, offset, L) ==
    [a \in Axes |-> Clip(position[a] + site[a] * spacing + offset[a], 0, L[a])]

\* the lattice of add_fluid_box: spacing and dimensions
box_lattice(size, n_particles) ==
    LET volume == size[1] * size[2] * size[3]
    IN  [ spacing |-> spacing_of(volume, n_particles),
          nx |-> Max(1, int_div_spacing(size[1], volume, n_particles)),
          ny |-> Max(1, int_div_spacing(size[2], volume, n_particles)),
          nz |-> Max(1, int_div_spacing(size[3], volume, n_particles)) ]

\* the loops of add_fluid_box from the s-th lattice site on, with `count`
\* particles placed: at count >= n_particles the break leaves the loop over k
\* only, so the loops go on at the first site of the next j; offsets[count] is
\* the jitter drawn for the next particle.  A full store raises out of the loops.
RECURSIVE fill_from(_, _, _, _, _, _, _, _, _, _, _)
fill_from(P, s, count, n_particles, lat, position, offsets, L, mass, color, visc) ==
    IF s >= lat.nx * lat.ny * lat.nz
    THEN [ particles |-> P, count |-> count, raised |-> "none" ]
    ELSE IF count >= n_particles
         THEN fill_from(P, ((s \div lat.nz) + 1) * lat.nz, count, n_particles, lat,
                        position, offsets, L, mass, color, visc)
         ELSE LET a == add_particle(P,
                         box_position(position, lat.spacing,
                                      box_site(s, lat.nx, lat.ny, lat.nz),
                                      offsets[count], L),
                         Zero3, mass, color, visc)
              IN  IF a.raised # "none"
                  THEN [ particles |-> a.particles, count |-> count, raised |-> a.raised ]
                  ELSE fill_from(a.particles, s + 1, count + 1, n_particles, lat,
                                 position, offsets, L, mass, color, visc)

\* SPHSolver.add_fluid_box(box): the store and the solver's count of particles
\* after the call, the number of particles placed and the exception raised
\* (sizes positive; a target count of 0 divides by zero)
add_fluid_box(P, n, box, offsets, L, mass, default_viscosity) ==
    IF box.n_particles = 0
    THEN [ particles |-> P, n_active |-> n, count |-> 0, raised |-> "ZeroDivisionError" ]
    ELSE LET r == fill_from(P, 0, 0, box.n_particles,
                            box_lattice(box.size, box.n_particles),
                            box.position, offsets, L, mass,
                            Get(box.fluid_properties, "color", DefaultColor),
                            Get(box.fluid_properties, "viscosity", default_viscosity))
         IN  [ particles |-> r.particles, n_active |-> n + r.count,
               count |-> r.count, raised |-> r.raised ]

\* the jitters add_fluid_box(box) can draw: one per particle it may place
BoxOffsets(box) ==
    [ 0..(box.n_particles - 1) ->
        Jitters(box_lattice(box.size, box.n_particles).spacing) ]

-----------------------------------------------------------------------------
(* Inputs *)

\* a constructor call: the arguments of SPHSolver.__init__
Config(L, hh, m, tau, cap) ==
    [ domain_size |-> L, smoothing_length |-> hh, particle_mass |-> m,
      rest_density |-> 100, gas_constant |-> 100, viscosity |-> 1,
      gravity |-> <<0, -1, 0>>, time_step |-> tau, max_particles |-> cap ]

\* constructor calls with positive h, time step, mass and extents; the second
\* has an extent below the wall offset epsilon
ValidConfigs ==
    { Config(<<8, 8, 8>>, 2, 1, 1, 2),
      Config(<<8, 1, 8>>, 2, 1, 1, 1) }

\* constructor calls with one non-positive parameter each
InvalidConfigs ==
    { Config(<<8, 8, 8>>, 0, 1, 1, 1),
      Config(<<8, 8, 8>>, -2, 1, 1, 1),
      Config(<<8, 8, 8>>, 2, 0, 1, 1),
      Config(<<8, 8, 8>>, 2, 1, 0, 1),
      Config(<<8, 8, 8>>, 2, 1, -1, 1),
      Config(<<8, 0, 8>>, 2, 1, 1, 1) }

\* the arguments add_particle is called with: in-bounds positions
AddArgs ==
    { [ position |-> <<1, 1, 1>>, velocity |-> Zero3, mass |-> 1,
        color |-> <<10, 0, 0>>, viscosity |-> 1 ],
      [ position |-> <<0, 0, 1>>, velocity |-> <<-1, 0, 0>>, mass |-> 2,
        color |-> <<0, 0, 10>>, viscosity |-> 2 ] }

\* the boxes add_fluid_box is called with
Boxes ==
    { [ position |-> <<1, 1, 1>>, size |-> <<2, 2, 2>>, n_particles |-> 1,
        fluid_properties |-> [ viscosity |-> 3, color |-> <<0, 10, 0>> ] ],
      [ position |-> <<0, 0, 0>>, size |-> <<4, 2, 2>>, n_particles |-> 2,
        fluid_properties |-> [ density |-> 1000 ] ] }

-----------------------------------------------------------------------------
(* State machine *)

\* the locals of run (duration, n_steps, step, callback), and for the checks the
\* step counter at entry, the number of self.step() calls made so far and the
\* list of what each callback invocation was given and found
NoFrame == [ duration |-> 0, n_steps |-> 0, step |-> 0, callback |-> FALSE,
             start_count |-> 0, executed |-> 0, seen |-> <<>> ]

\* the last call: `op(arg)` returned `ret` (0 for None) or raised `raised`; arg is
\* the index given to remove_particle and 0 for the other calls.  n_before is the
\* store's live count when the call began, dirty whether the slot the call wrote
\* held values it had to replace: for add_particle a nonzero density, pressure or
\* force of an earlier particle, for remove_particle a record other than the one
\* copied into it.
CallRecord(op, arg, ret, raised, dirty) ==
    [ op |-> op, arg |-> arg, ret |-> ret, raised |-> raised,
      n_before |-> particles.n_particles, dirty |-> dirty ]

Returned(op, arg, ret, raised) ==
    call' = CallRecord(op, arg, ret, raised, FALSE)

\* every field of slot s of store P
Record(P, s) ==
    << P.positions[s], P.velocities[s], P.forces[s], P.masses[s],
       P.densities[s], P.pressures[s], P.colors[s], P.viscosities[s] >>

\* remove_particle(index) has a record to overwrite: slot index is live, is not
\* the last live slot and holds another record than the last live slot
Overwrites(P, index) ==
    /\ 0 <= index
    /\ index < P.n_particles - 1
    /\ Record(P, index) # Record(P, P.n_particles - 1)

\* slot idx of the store holds a nonzero density, pressure or force
Dirty(P, idx) ==
    /\ idx \in Slots(P)
    /\ (P.densities[idx] # 0 \/ P.pressures[idx] # 0 \/ P.forces[idx] # Zero3)

\* SPHSolver.__init__(cfg)
Construct(cfg) ==
    /\ domain_size = cfg.domain_size
    /\ h = cfg.smoothing_length
    /\ particle_mass = cfg.particle_mass
    /\ rest_density = cfg.rest_density
    /\ gas_constant = cfg.gas_constant
    /\ viscosity = cfg.viscosity
    /\ gravity = cfg.gravity
    /\ dt = cfg.time_step
    /\ particles = NewParticleSystem(cfg.max_particles)
    /\ n_active = 0
    /\ spatial_grid = EmptyGrid
    /\ time = 0
    /\ step_count = 0
    /\ call = [ op |-> "__init__", arg |-> 0, ret |-> 0, raised |-> "none",
              n_before |-> 0, dirty |-> FALSE ]
    /\ run_pc = "idle"
    /\ run_frame = NoFrame

Init == \E cfg \in ValidConfigs : Construct(cfg)

\* solver.particles.add_particle(position, velocity, mass, color, viscosity)
AddParticle ==
    /\ run_pc = "idle"
    /\ \E a \in AddArgs :
        LET r == add_particle(particles, a.position, a.velocity, a.mass,
                              a.color, a.viscosity)
        IN  /\ particles' = r.particles
            /\ call' = CallRecord("add_particle", 0, r.ret, r.raised,
                    r.raised = "none" /\ Dirty(particles,
                        PyIndex(particles.n_particles, particles.max_particles)))
    /\ run_frame' = NoFrame
    /\ UNCHANGED <<solver_params, n_active, spatial_grid, time, step_count, run_pc>>

\* solver.particles.remove_particle(index): a live index, or the first index
\* that is not live
RemoveParticle ==
    /\ run_pc = "idle"
    /\ \E index \in 0..particles.n_particles :
        /\ particles' = remove_particle(particles, index)
        /\ call' = CallRecord("remove_particle", index, 0, "none",
                              Overwrites(particles, index))
    /\ run_frame' = NoFrame
    /\ UNCHANGED <<solver_params, n_active, spatial_grid, time, step_count, run_pc>>

\* solver.add_fluid_box(position, size, n_particles, fluid_properties)
AddFluidBox ==
    /\ run_pc = "idle"
    /\ n_active < MaxActive
    /\ \E box \in Boxes :
        \E offsets \in BoxOffsets(box) :
            LET r == add_fluid_box(particles, n_active, box, offsets, domain_size,
                                   particle_mass, viscosity)
            IN  /\ particles' = r.particles
                /\ n_active' = r.n_active
                /\ Returned("add_fluid_box", 0, 0, r.raised)
    /\ run_frame' = NoFrame
    /\ UNCHANGED <<solver_params, spatial_grid, time, step_count, run_pc>>

\* solver.step()
Step ==
    /\ run_pc = "idle"
    /\ step_count < MaxSteps
    /\ LET r == step
       IN  /\ particles' = r.particles
           /\ spatial_grid' = r.grid
           /\ time' = r.time
           /\ step_count' = r.step_count
           /\ Returned("step", 0, 0, r.raised)
    /\ run_frame' = NoFrame
    /\ UNCHANGED <<solver_params, n_active, run_pc>>

\* n_steps = int(duration / self.dt)  (dt # 0)
run_n_steps(duration, tau) == Quot(duration, tau)

\* the loop of run after iteration `frame.step`: the next iteration, or return
RunAdvance(frame) ==
    IF frame.step + 1 < frame.n_steps
    THEN /\ run_pc' = "step"
         /\ run_frame' = [frame EXCEPT !.step = frame.step + 1]
         /\ UNCHANGED call
    ELSE /\ run_pc' = "idle"
         /\ run_frame' = frame
         /\ Returned("run", 0, 0, "none")

\* solver.run(duration, callback): entry, up to the first iteration of the loop
RunBegin ==
    /\ run_pc = "idle"
    /\ \E duration \in 0..MaxDuration, callback \in BOOLEAN :
        IF dt = 0
        THEN /\ Returned("run", 0, 0, "ZeroDivisionError")
             /\ run_frame' = NoFrame
             /\ run_pc' = "idle"
        ELSE LET n_steps == run_n_steps(duration, dt)
                 frame == [ duration |-> duration, n_steps |-> n_steps, step |-> 0,
                            callback |-> callback, start_count |-> step_count,
                            executed |-> 0, seen |-> <<>> ]
             IN  /\ step_count + n_steps <= MaxRunSteps
                 /\ run_frame' = frame
                 /\ IF n_steps > 0
                    THEN run_pc' = "step" /\ UNCHANGED call
                    ELSE run_pc' = "idle" /\ Returned("run", 0, 0, "none")
    /\ UNCHANGED <<solver_params, particles, n_active, spatial_grid, time, step_count>>

\* the self.step() of one iteration of run; an exception leaves run
RunStep ==
    /\ run_pc = "step"
    /\ LET r == step
           frame == [run_frame EXCEPT !.executed = @ + 1]
       IN  /\ particles' = r.particles
           /\ spatial_grid' = r.grid
           /\ time' = r.time
           /\ step_count' = r.step_count
           /\ IF r.raised # "none"
              THEN /\ run_pc' = "idle"
                   /\ run_frame' = frame
                   /\ Returned("run", 0, 0, r.raised)
              ELSE IF frame.callback
                   THEN /\ run_pc' = "callback"
                        /\ run_frame' = frame
                        /\ UNCHANGED call
                   ELSE RunAdvance(frame)
    /\ UNCHANGED <<solver_params, n_active>>

\* callback(self, step): the callback records the index it is given and the
\* step counter and time it finds
RunCallback ==
    /\ run_pc = "callback"
    /\ RunAdvance([run_frame EXCEPT !.seen =
            Append(@, [ step |-> run_frame.step, step_count |-> step_count,
                        time |-> time ])])
    /\ UNCHANGED <<solver_params, particles, n_active, spatial_grid, time, step_count>>

\* the store, the insertion helper and single steps
Next ==
    \/ AddParticle
    \/ RemoveParticle
    \/ AddFluidBox
    \/ Step

Spec == Init /\ [][Next]_vars

\* insertion, then run(duration, callback)
RunNext ==
    \/ AddParticle
    \/ AddFluidBox
    \/ RunBegin
    \/ RunStep
    \/ RunCallback

RunSpec == Init /\ [][RunNext]_vars

\* insertion, single steps and run(duration, callback)
FrameNext ==
    \/ AddParticle
    \/ AddFluidBox
    \/ Step
    \/ RunBegin
    \/ RunStep
    \/ RunCallback

FrameSpec == Init /\ [][FrameNext]_vars

\* construction with a non-positive parameter, then the operations of Spec
CtorInit == \E cfg \in InvalidConfigs : Construct(cfg)

CtorSpec == CtorInit /\ [][Next]_vars

\* solver.get_info(): the dictionary returned is recorded
GetInfo ==
    /\ run_pc = "idle"
    /\ call' = CallRecord("get_info", 0, get_info, "none", FALSE)
    /\ UNCHANGED <<solver_params, particles, n_active, spatial_grid, time,
                   step_count, run_pc, run_frame>>

\* the operations of Spec, and get_info
InfoNext ==
    \/ AddParticle
    \/ RemoveParticle
    \/ AddFluidBox
    \/ Step
    \/ GetInfo

InfoSpec == Init /\ [][InfoNext]_vars


\* the boxes add_fluid_box is called with in a domain of 2 cm and a store of
\* capacity 4: one lattice site inside the domain; 2 x 2 x 1 sites; one site
\* with its corner outside the domain and a spacing large enough for a jitter of
\* half a millimetre; a lattice of 2 sites for a target count of 3
BoxArgs ==
    { [ position |-> <<1, 1, 1>>, size |-> <<2, 2, 2>>, n_particles |-> 1,
        fluid_properties |-> [ viscosity |-> 3, color |-> <<0, 10, 0>> ] ],
      [ position |-> <<0, 0, 0>>, size |-> <<4, 4, 2>>, n_particles |-> 4,
        fluid_properties |-> [ density |-> 1000 ] ],
      [ position |-> <<-5, 45, 20>>, size |-> <<10, 10, 10>>, n_particles |-> 1,
        fluid_properties |-> [ viscosity |-> 2 ] ],
      [ position |-> <<6, 6, 6>>, size |-> <<4, 2, 2>>, n_particles |-> 3,
        fluid_properties |-> [ color |-> <<10, 10, 0>> ] ] }

\* solver.add_fluid_box(box) with a box of BoxArgs, also on a full store; the
\* record keeps the box
BoxAddFluidBox ==
    /\ run_pc = "idle"
    /\ \E box \in BoxArgs :
        \E offsets \in BoxOffsets(box) :
            LET r == add_fluid_box(particles, n_active, box, offsets, domain_size,
                                   particle_mass, viscosity)
            IN  /\ particles' = r.particles
                /\ n_active' = r.n_active
                /\ call' = CallRecord("add_fluid_box", box, 0, r.raised, FALSE)
    /\ UNCHANGED <<solver_params, spatial_grid, time, step_count, run_pc, run_frame>>

\* add_fluid_box calls on a solver with a domain of 2 cm and a store of capacity 4
BoxInit == Construct(Config(<<40, 40, 40>>, 2, 1, 1, 4))

BoxSpec == BoxInit /\ [][BoxAddFluidBox]_vars

\* add_fluid_box on a store that is also appended to directly
CapacityNext ==
    \/ AddParticle
    \/ BoxAddFluidBox

CapacitySpec == BoxInit /\ [][CapacityNext]_vars

\* boxes of one and two particles; the last draws a jitter on the z axis
InfoBoxes ==
    { [ position |-> <<1, 1, 1>>, size |-> <<2, 2, 2>>, n_particles |-> 1,
        fluid_properties |-> [ viscosity |-> 3 ] ],
      [ position |-> <<0, 0, 0>>, size |-> <<4, 2, 2>>, n_particles |-> 2,
        fluid_properties |-> [ density |-> 1000 ] ],
      [ position |-> <<-5, 45, 4>>, size |-> <<10, 10, 10>>, n_particles |-> 1,
        fluid_properties |-> [ color |-> <<10, 10, 0>> ] ] }

\* solver.add_fluid_box(box) with a box of InfoBoxes
InfoAddFluidBox ==
    /\ run_pc = "idle"
    /\ n_active < MaxActive
    /\ \E box \in InfoBoxes :
        \E offsets \in BoxOffsets(box) :
            LET r == add_fluid_box(particles, n_active, box, offsets, domain_size,
                                   particle_mass, viscosity)
            IN  /\ particles' = r.particles
                /\ n_active' = r.n_active
                /\ Returned("add_fluid_box", 0, 0, r.raised)
    /\ run_frame' = NoFrame
    /\ UNCHANGED <<solver_params, spatial_grid, time, step_count, run_pc>>

\* add_fluid_box, step and get_info only, on a solver with a store of capacity 3
ActiveInfoInit == Construct(Config(<<8, 8, 8>>, 2, 1, 1, 3))

ActiveInfoNext ==
    \/ InfoAddFluidBox
    \/ Step
    \/ GetInfo

ActiveInfoSpec == ActiveInfoInit /\ [][ActiveInfoNext]_vars

\* solver.step(); the record keeps the store and the grid the call found
TracedStep ==
    /\ run_pc = "idle"
    /\ step_count < MaxSteps
    /\ LET r == step
       IN  /\ particles' = r.particles
           /\ spatial_grid' = r.grid
           /\ time' = r.time
           /\ step_count' = r.step_count
           /\ call' = [ op |-> "step", arg |-> 0, ret |-> 0, raised |-> r.raised,
                        n_before |-> particles.n_particles, dirty |-> FALSE,
                        before |-> particles, grid_before |-> spatial_grid ]
    /\ run_frame' = NoFrame
    /\ UNCHANGED <<solver_params, n_active, run_pc>>

\* add_fluid_box and step
PassNext ==
    \/ InfoAddFluidBox
    \/ TracedStep

PassSpec == ActiveInfoInit /\ [][PassNext]_vars

\* add_fluid_box and step on a store that is also appended to directly
TraceNext ==
    \/ AddParticle
    \/ InfoAddFluidBox
    \/ TracedStep

TraceSpec == ActiveInfoInit /\ [][TraceNext]_vars

\* a solver with a tall domain, a time step of 2 and a store of capacity 1
FallInit == Construct(Config(<<16, 60, 16>>, 2, 1, 2, 1))

\* the arguments add_particle is called with to place the one particle: high
\* above the floor or near it, at rest or moving
FallArgs ==
    { [ position |-> p, velocity |-> v, mass |-> m,
        color |-> <<10, 0, 0>>, viscosity |-> 1 ] :
        p \in { <<4, 50, 4>>, <<4, 6, 4>> },
        v \in { Zero3, <<1, 2, 0>>, <<0, -3, 0>> },
        m \in { 1, 2 } }

\* a box of one particle, high above the floor
FallBox ==
    [ position |-> <<2, 40, 2>>, size |-> <<10, 10, 10>>, n_particles |-> 1,
      fluid_properties |-> [ viscosity |-> 3 ] ]

\* solver.particles.add_particle(...) on the empty store
FallAddParticle ==
    /\ particles.n_particles = 0
    /\ \E a \in FallArgs :
        LET r == add_particle(particles, a.position, a.velocity, a.mass,
                              a.color, a.viscosity)
        IN  /\ particles' = r.particles
            /\ Returned("add_particle", 0, r.ret, r.raised)
    /\ UNCHANGED <<solver_params, n_active, spatial_grid, time, step_count,
                   run_pc, run_frame>>

\* solver.add_fluid_box(FallBox) on the empty store
FallAddFluidBox ==
    /\ particles.n_particles = 0
    /\ \E offsets \in BoxOffsets(FallBox) :
        LET r == add_fluid_box(particles, n_active, FallBox, offsets, domain_size,
                               particle_mass, viscosity)
        IN  /\ particles' = r.particles
            /\ n_active' = r.n_active
            /\ Returned("add_fluid_box", 0, 0, r.raised)
    /\ UNCHANGED <<solver_params, spatial_grid, time, step_count, run_pc, run_frame>>

\* the step about to run moves a particle it integrates out of the domain, so
\* that apply_boundary_conditions reflects it
step_crosses ==
    /\ n_active > 0
    /\ LET d == compute_density_pressure(particles, spatial_grid, n_active, h,
                                         rest_density, gas_constant)
           f == compute_forces(d.particles, d.grid, n_active, h, gravity)
       IN  \E i \in 0..(n_active - 1) :
              \E a \in Axes :
                  \/ advance_particle(f, i, dt).pos[a] < 0
                  \/ advance_particle(f, i, dt).pos[a] > domain_size[a]

\* solver.step() on the store of one particle; the record keeps the position
\* and velocity the particle had before the first step() call, the number of
\* step() calls since and whether one of them reflected the particle at a wall
FallStep ==
    /\ particles.n_particles = 1
    /\ call.op = "step" => call.steps < MaxFallSteps
    /\ LET r == step
           first == call.op # "step"
       IN  /\ particles' = r.particles
           /\ spatial_grid' = r.grid
           /\ time' = r.time
           /\ step_count' = r.step_count
           /\ call' = [ op |-> "step", arg |-> 0, ret |-> 0, raised |-> r.raised,
                        n_before |-> particles.n_particles, dirty |-> FALSE,
                        origin |-> IF first
                                   THEN [ position |-> particles.positions[0],
                                          velocity |-> particles.velocities[0] ]
                                   ELSE call.origin,
                        steps |-> IF first THEN 1 ELSE call.steps + 1,
                        crossed |-> step_crosses \/ (~first /\ call.crossed) ]
    /\ UNCHANGED <<solver_params, n_active, run_pc, run_frame>>

\* one particle, placed through the store or by add_fluid_box, then stepped
FallNext ==
    \/ FallAddParticle
    \/ FallAddFluidBox
    \/ FallStep

FallSpec == FallInit /\ [][FallNext]_vars

\* the positions the store is filled with before the grid is built from it:
\* two in one cell (h = 2), one in the next cell, one two cells away, one at a
\* negative coordinate at distance exactly h of the first
GridPositions == { <<1, 1, 1>>, <<2, 1, 1>>, <<5, 1, 1>>, <<-1, 1, 1>> }

\* the points get_neighbors is asked about
GridQueries == { <<1, 1, 1>>, <<3, 1, 1>>, <<-3, 1, 1>> }

\* the number of positions of the last build with no append after it (-1: none)
LastBuilt(c) == IF c.op \in {"build", "get_neighbors"} THEN c.last_k ELSE -1

\* the number of get_neighbors calls since the last build
QueriesSince(c) == IF c.op = "get_neighbors" THEN c.queries ELSE 0

\* solver.particles.add_particle(position, [0, 0, 0], 1, color, 1)
GridAddParticle ==
    /\ run_pc = "idle"
    /\ \E position \in GridPositions :
        LET r == add_particle(particles, position, Zero3, 1, <<5, 5, 5>>, 1)
        IN  /\ particles' = r.particles
            /\ Returned("add_particle", 0, r.ret, r.raised)
    /\ UNCHANGED <<solver_params, n_active, spatial_grid, time, step_count,
                   run_pc, run_frame>>

\* solver.spatial_grid.build(solver.particles.positions[:k]); with a cell size
\* of 0 hash_position raises on the first position, after the clear.  The
\* record keeps the grid the call found, whether the last build was of the same
\* k positions and how many queries were made since
GridBuild ==
    /\ run_pc = "idle"
    /\ \E k \in 0..particles.n_particles :
        LET fails == h = 0 /\ k > 0
        IN  /\ spatial_grid' = IF fails THEN clear(spatial_grid)
                                ELSE build(spatial_grid, particles.positions, k, h)
            /\ call' = [ op |-> "build", arg |-> k, ret |-> 0,
                         raised |-> IF fails THEN "OverflowError" ELSE "none",
                         n_before |-> particles.n_particles, dirty |-> FALSE,
                         grid_before |-> spatial_grid,
                         rebuild |-> LastBuilt(call) = k,
                         last_k |-> IF fails THEN -1 ELSE k,
                         queries |-> QueriesSince(call) ]
    /\ UNCHANGED <<solver_params, particles, n_active, time, step_count,
                   run_pc, run_frame>>

\* solver.spatial_grid.get_neighbors(q, h): the list returned is recorded
GridQuery ==
    /\ run_pc = "idle"
    /\ QueriesSince(call) < MaxQueries
    /\ \E q \in GridQueries :
        LET fails == h = 0
        IN  call' = [ op |-> "get_neighbors", arg |-> q,
                      ret |-> IF fails THEN <<>> ELSE get_neighbors(spatial_grid, q, h),
                      raised |-> IF fails THEN "OverflowError" ELSE "none",
                      n_before |-> particles.n_particles, dirty |-> FALSE,
                      last_k |-> LastBuilt(call),
                      queries |-> QueriesSince(call) + 1 ]
    /\ UNCHANGED <<solver_params, particles, n_active, spatial_grid, time,
                   step_count, run_pc, run_frame>>

\* a store of capacity 3 filled by appends, and the grid built and queried
GridInit == Construct(Config(<<8, 8, 8>>, 2, 1, 1, 3))

GridNext ==
    \/ GridAddParticle
    \/ GridBuild
    \/ GridQuery

GridSpec == GridInit /\ [][GridNext]_vars

-----------------------------------------------------------------------------
(* The kernels called on their own (static methods).  Lengths are in
   micrometres here, so that the singularity threshold 1e-6 m is the length 1. *)

\* the threshold 1e-6 (m) in micrometres
ThresholdsPerMicrometre == 1

\* displacements: zero, one of length exactly the threshold, inside the
\* support, of length exactly h (2 and 3) and beyond it
KernelDisplacements ==
    { <<0, 0, 0>>, <<1, 0, 0>>, <<1, 1, 0>>, <<0, 2, 0>>, <<2, 2, 1>>, <<0, -3, 1>> }

\* smoothing lengths
KernelSmoothing == {2, 3}

\* SPHKernel.poly6(r, h), SPHKernel.spiky_gradient(r, h) and
\* SPHKernel.viscosity_laplacian(r, h) for one displacement
KernelScalar ==
    /\ run_pc = "idle"
    /\ \E r \in KernelDisplacements, hh \in KernelSmoothing :
        call' = [ op |-> "SPHKernel", arg |-> [ r |-> r, h |-> hh ],
                  ret |-> [ poly6 |-> poly6(r, hh),
                            spiky_gradient |->
                                spiky_gradient_in(r, hh, ThresholdsPerMicrometre),
                            viscosity_laplacian |-> viscosity_laplacian(r, hh) ],
                  raised |-> "none", n_before |-> particles.n_particles,
                  dirty |-> FALSE ]
    /\ UNCHANGED <<solver_params, particles, n_active, spatial_grid, time,
                   step_count, run_pc, run_frame>>

\* the three VectorizedKernels functions on one array of displacements
KernelVectorized ==
    /\ run_pc = "idle"
    /\ \E n \in 1..MaxVectors, hh \in KernelSmoothing :
        \E r_vectors \in [1..n -> KernelDisplacements] :
            call' = [ op |-> "VectorizedKernels",
                      arg |-> [ r_vectors |-> r_vectors, h |-> hh ],
                      ret |-> [ poly6 |-> poly6_vectorized(r_vectors, hh),
                                spiky_gradient |->
                                    spiky_gradient_vectorized(r_vectors, hh,
                                        ThresholdsPerMicrometre),
                                viscosity_laplacian |->
                                    viscosity_laplacian_vectorized(r_vectors, hh) ],
                      raised |-> "none", n_before |-> particles.n_particles,
                      dirty |-> FALSE ]
    /\ UNCHANGED <<solver_params, particles, n_active, spatial_grid, time,
                   step_count, run_pc, run_frame>>

KernelInit == Construct(Config(<<8, 8, 8>>, 2, 1, 1, 1))

KernelNext ==
    \/ KernelScalar
    \/ KernelVectorized

KernelSpec == KernelInit /\ [][KernelNext]_vars

-----------------------------------------------------------------------------
(* The particle store on its own, with any integer as the index to remove *)

\* the store before the call is kept in the record
StoreRecord(op, arg, ret, raised) ==
    [ op |-> op, arg |-> arg, ret |-> ret, raised |-> raised,
      n_before |-> particles.n_particles, dirty |-> FALSE, before |-> particles ]

\* particles.add_particle(...), while the count is an index of the arrays
StoreAddParticle ==
    /\ run_pc = "idle"
    /\ particles.n_particles >= -particles.max_particles
    /\ \E a \in AddArgs :
        LET r == add_particle(particles, a.position, a.velocity, a.mass,
                              a.color, a.viscosity)
        IN  /\ particles' = r.particles
            /\ call' = StoreRecord("add_particle", 0, r.ret, r.raised)
    /\ UNCHANGED <<solver_params, n_active, spatial_grid, time, step_count,
                   run_pc, run_frame>>

\* particles.remove_particle(index) with an index from one below the arrays'
\* negative range to their length; the count is not taken below -max_particles
StoreRemoveParticle ==
    /\ run_pc = "idle"
    /\ particles.n_particles > -particles.max_particles
    /\ \E index \in (-(particles.max_particles + 1))..particles.max_particles :
        LET r == remove_particle_indexed(particles, index)
        IN  /\ particles' = r.particles
            /\ call' = StoreRecord("remove_particle", index, 0, r.raised)
    /\ UNCHANGED <<solver_params, n_active, spatial_grid, time, step_count,
                   run_pc, run_frame>>

StoreInit == Construct(Config(<<8, 8, 8>>, 2, 1, 1, 3))

StoreNext ==
    \/ StoreAddParticle
    \/ StoreRemoveParticle

StoreSpec == StoreInit /\ [][StoreNext]_vars

-----------------------------------------------------------------------------
(* Properties *)

\* the store's live count N and its live slots 0..N-1
N == particles.n_particles
Live == 0..(N - 1)

\* step() called in the current state returns normally and changes nothing
StepIsNoOp ==
    LET r == step
    IN  /\ r.raised = "none"
        /\ r.particles = particles
        /\ r.grid = spatial_grid
        /\ r.time = time
        /\ r.step_count = step_count

\* arguments the contracts of add_particle are checked with in every state
ProbeArgs ==
    [ position : { <<0, 0, 0>>, <<3, 7, 2>> },
      velocity : { Zero3, <<2, -1, 0>> },
      mass : { 1, 3 },
      color : { <<5, 5, 5>> },
      viscosity : { 0, 4 } ]

\* C1: in a domain with positive extents every live particle's position lies in
\* [0, L] on every axis, after any sequence of steps from in-bounds positions
C1_DomainContainment ==
    (\A a \in Axes : domain_size[a] > 0) =>
        \A i \in Live : \A a \in Axes :
            /\ 0 <= particles.positions[i][a]
            /\ particles.positions[i][a] <= domain_size[a]

\* the state C1 fails in: a live particle reflected off the lower wall of an axis
\* whose extent is below epsilon lies beyond the upper wall
C1_ReflectedOutside ==
    \E i \in Live : \E a \in Axes :
        /\ domain_size[a] > 0
        /\ call.op = "step"
        /\ particles.positions[i][a] = Epsilon
        /\ particles.positions[i][a] > domain_size[a]

\* containment where every extent is at least epsilon (the scope of the failure of C1)
ContainmentInWideDomain ==
    (\A a \in Axes : domain_size[a] >= Epsilon) =>
        \A i \in Live : \A a \in Axes :
            /\ 0 <= particles.positions[i][a]
            /\ particles.positions[i][a] <= domain_size[a]

\* C2: the solver is Empty (step() is a no-op) exactly when the store has no
\* live particle
C2_EmptyIffNoLive == StepIsNoOp <=> (Live = {})

\* the state C2 fails in: step() has been called on a store with a live particle
\* appended by add_particle, and was a no-op
C2_LiveButEmpty ==
    /\ call.op = "step"
    /\ N > 0
    /\ n_active = 0
    /\ step_count = 0
    /\ time = 0

\* C3: step() on a solver with no live particle changes nothing: time, step
\* counter, store and spatial index
C3_EmptyStepNoOp == (Live = {}) => StepIsNoOp

\* the state C3 fails in: step() on a store whose particles were all removed has
\* advanced the clocks
C3_EmptyStepped ==
    /\ call.op = "step"
    /\ call.n_before = 0
    /\ N = 0
    /\ step_count > 0

\* step() is a no-op where the solver's own count of particles is 0 as well
EmptyStepNoOpInStep == (Live = {} /\ n_active = 0) => StepIsNoOp

\* C4: every step() on a non-empty solver adds 1 to the step counter and dt to
\* the time, and no operation decreases either
C4_MonotoneClocks ==
    [][ /\ (call'.op = "step" /\ Live # {}) =>
            (step_count' = step_count + 1 /\ time' = time + dt)
        /\ step_count' >= step_count
        /\ time' >= time ]_vars

\* the clocks where step() runs on a solver whose own count of particles is
\* positive and within the store's capacity
ClocksOfCountedSteps ==
    [][ /\ (call'.op = "step" /\ n_active > 0 /\ n_active <= particles.max_particles) =>
            (step_count' = step_count + 1 /\ time' = time + dt)
        /\ step_count' >= step_count
        /\ time' >= time ]_vars

\* run has returned normally
RunReturned == run_pc = "idle" /\ call.op = "run" /\ call.raised = "none"

\* C5: run(T, callback) makes exactly floor(T/dt) calls of step() and invokes the
\* callback once after each, with the indices 0, 1, ... in increasing order; on
\* an Active solver the k-th invocation finds the step counter at its value on
\* entry plus k; run returns only after the last step
C5_RunContract ==
    LET f == run_frame
        n == FloorDiv(f.duration, dt)
    IN  /\ f.executed <= n
        /\ RunReturned => f.executed = n
        /\ f.callback =>
            /\ Len(f.seen) = (IF run_pc = "callback" THEN f.executed - 1 ELSE f.executed)
            /\ \A k \in 1..Len(f.seen) :
                /\ f.seen[k].step = k - 1
                /\ (Live # {}) => f.seen[k].step_count = f.start_count + k

\* the state C5 fails in: run has returned from a store with a live particle and
\* its callback found the step counter where run began
C5_CallbackSawNoStep ==
    /\ RunReturned
    /\ N > 0
    /\ Len(run_frame.seen) > 0
    /\ run_frame.seen[1].step_count = run_frame.start_count

\* C5 without the clause on the step counter: the number of steps, and the
\* callback's invocations and their indices
RunCountsAndIndices ==
    LET f == run_frame
        n == FloorDiv(f.duration, dt)
    IN  /\ f.executed <= n
        /\ RunReturned => f.executed = n
        /\ f.callback =>
            /\ Len(f.seen) = (IF run_pc = "callback" THEN f.executed - 1 ELSE f.executed)
            /\ \A k \in 1..Len(f.seen) : f.seen[k].step = k - 1

\* C6: add_particle on a store whose live count equals max_particles raises the
\* Capacity error (RuntimeError) and leaves the store as it was
C6_CapacityError ==
    (N = particles.max_particles) =>
        \A a \in ProbeArgs :
            LET r == add_particle(particles, a.position, a.velocity, a.mass,
                                  a.color, a.viscosity)
            IN  r.raised = "RuntimeError" /\ r.particles = particles

\* an add_particle call on a full store has raised
C6_Witness ==
    /\ call.op = "add_particle"
    /\ call.raised = "RuntimeError"
    /\ call.n_before = particles.max_particles
    /\ N = particles.max_particles

\* C7: a successful add_particle returns the previous live count as the index,
\* adds 1 to the live count, stores the given position, velocity, mass, colour
\* and viscosity in that slot and zeroes its density, pressure and force, also
\* in a slot a removed particle has left its values in
C7_AddParticleContract ==
    (N < particles.max_particles) =>
        \A a \in ProbeArgs :
            LET r == add_particle(particles, a.position, a.velocity, a.mass,
                                  a.color, a.viscosity)
                Q == r.particles
                s == PyIndex(r.ret, particles.max_particles)
            IN  /\ r.raised = "none"
                /\ r.ret = N
                /\ Q.n_particles = N + 1
                /\ Record(Q, s) = << a.position, a.velocity, Zero3, a.mass,
                                     0, 0, a.color, a.viscosity >>

\* an add_particle call has succeeded in a slot that held a removed particle's
\* nonzero density, pressure or force, and the slot now holds zeros
C7_Witness ==
    /\ call.op = "add_particle"
    /\ call.raised = "none"
    /\ call.dirty
    /\ call.ret = N - 1
    /\ call.ret = call.n_before
    /\ particles.densities[call.ret] = 0
    /\ particles.pressures[call.ret] = 0
    /\ particles.forces[call.ret] = Zero3

C9_RemoveOutOfRange ==
    \A i \in N..(particles.max_particles + 1) :
        remove_particle(particles, i) = particles

\* a remove_particle(i) call with i >= N has acted on a store with live particles
C9_Witness ==
    /\ call.op = "remove_particle"
    /\ call.n_before = N
    /\ call.arg >= N
    /\ N > 0

\* a constructor argument that must be positive is not
InvalidParameters ==
    \/ h <= 0
    \/ dt <= 0
    \/ particle_mass <= 0
    \/ \E a \in Axes : domain_size[a] <= 0

\* C10: a solver with a non-positive smoothing length, timestep, particle mass or
\* domain extent is rejected at construction with InvalidParameter: no operation
\* is ever carried out on one
C10_InvalidRejected ==
    InvalidParameters => (call.op = "__init__" /\ call.raised = "InvalidParameter")

\* a solver constructed with such a parameter has been stepped
C10_SteppedInvalid ==
    /\ InvalidParameters
    /\ call.op = "step"
    /\ call.raised = "none"
    /\ step_count > 0

\* the entries of the list s, and the number of times i occurs in it
Entries(s) == { s[m] : m \in 1..Len(s) }
Occurrences(i, s) == Cardinality({ m \in 1..Len(s) : s[m] = i })

\* the cell (floor(x/h), floor(y/h), floor(z/h)) of a position
CellOf(position) == [a \in Axes |-> FloorDiv(position[a], h)]

\* C11: after build(P) every index 0..len(P)-1 appears in exactly one bucket,
\* once, the bucket keyed by the cell of its position, and the grid holds no
\* other index and no bucket of an earlier build
C11_BuildPartition ==
    (call.op = "build" /\ call.raised = "none") =>
        /\ \A i \in 0..(call.arg - 1) :
             LET c == CellOf(particles.positions[i])
             IN  /\ c \in DOMAIN spatial_grid
                 /\ Occurrences(i, spatial_grid[c]) = 1
                 /\ \A c2 \in DOMAIN spatial_grid \ {c} :
                      i \notin Entries(spatial_grid[c2])
        /\ \A c \in DOMAIN spatial_grid :
             /\ spatial_grid[c] # <<>>
             /\ Entries(spatial_grid[c]) \subseteq 0..(call.arg - 1)

\* a build has replaced a grid that held an index the new build does not
\* cover, in a bucket the new grid has no key for; a position with a negative
\* coordinate is among those built
C11_Witness ==
    /\ call.op = "build"
    /\ call.arg >= 2
    /\ \E c \in DOMAIN call.grid_before :
         /\ c \notin DOMAIN spatial_grid
         /\ \E i \in Entries(call.grid_before[c]) : i >= call.arg
    /\ \E i \in 0..(call.arg - 1) : particles.positions[i][1] < 0

\* the squared distance of two points is at most h^2
Within(p, q) == Dot(VSub(p, q), VSub(p, q)) <= h * h

\* C12: after a build, get_neighbors(q, h) returns every index whose position
\* lies within distance h of q, so a query at a built position returns its index
C12_NeighborsSuperset ==
    (call.op = "get_neighbors" /\ call.raised = "none") =>
        \A i \in 0..(call.last_k - 1) :
            Within(particles.positions[i], call.arg) => i \in Entries(call.ret)

\* a query has returned an index from another cell than the query point's, at
\* distance h or less, and has left out an index that was built
C12_Witness ==
    /\ call.op = "get_neighbors"
    /\ \E i \in 0..(call.last_k - 1) :
         /\ Within(particles.positions[i], call.arg)
         /\ CellOf(particles.positions[i]) # CellOf(call.arg)
         /\ i \in Entries(call.ret)
    /\ \E j \in 0..(call.last_k - 1) : j \notin Entries(call.ret)

\* C13: a build of the positions the last build was given leaves the mapping as
\* it was, keys and bucket contents in order, whatever queries were made in
\* between; a query changes nothing in the mapping
C13_RebuildIdempotent ==
    [][ /\ (call'.op = "build" /\ call'.rebuild) => spatial_grid' = spatial_grid
        /\ call'.op = "get_neighbors" => spatial_grid' = spatial_grid ]_vars

\* the same positions have been built a second time after queries, into a grid
\* with a bucket of two entries in insertion order and a second bucket
C13_Witness ==
    /\ call.op = "build"
    /\ call.rebuild
    /\ call.queries > 0
    /\ call.grid_before = spatial_grid
    /\ \E c \in DOMAIN spatial_grid : spatial_grid[c] = <<0, 1>>
    /\ Cardinality(DOMAIN spatial_grid) >= 2

\* the floor 0.01 * rest_density of the density
DensityFloor == Quot(rest_density, DensityFloorDivisor)

\* C14: after a step that ran compute_density_pressure, every live particle
\* has a density of at least 0.01 * rest_density
C14_DensityFloor ==
    (call.op = "step" /\ call.raised = "none" /\ n_active > 0) =>
        \A i \in Live : particles.densities[i] >= DensityFloor

\* the state C14 fails in: after a non-empty step a live particle appended by
\* add_particle holds the density 0
C14_LiveBelowFloor ==
    /\ call.op = "step"
    /\ call.raised = "none"
    /\ step_count > 0
    /\ \E i \in Live : i >= n_active /\ particles.densities[i] = 0

\* the floor holds for the live particles the solver counts
DensityFloorOfCounted ==
    (call.op = "step" /\ call.raised = "none" /\ n_active > 0) =>
        \A i \in Live : i < n_active => particles.densities[i] >= DensityFloor

\* the slots a step works on: range(n_active), within the arrays
Counted == 0..(Min(n_active, particles.max_particles) - 1)

\* the transition is a step() that ran its three phases
StepRan ==
    /\ call'.op = "step"
    /\ call'.raised = "none"
    /\ step_count' = step_count + 1

\* the position and velocity of particle i as the step's integration leaves
\* them before the reflection, from the force the step computed
Unreflected(i) == advance_particle([particles EXCEPT !.forces = particles'.forces], i, dt)

\* the reflective rule on one axis: (p, v) before, (p2, v2) after
ReflectionRule(p, v, extent, p2, v2) ==
    IF p < 0
    THEN p2 = Epsilon /\ v2 = Abs(v) \div DampingDivisor
    ELSE IF p > extent
         THEN p2 = extent - Epsilon /\ v2 = -(Abs(v) \div DampingDivisor)
         ELSE p2 = p /\ v2 = v

\* coordinates and velocity components the rule is probed with: far below, just
\* below, on and inside the walls, just above and far above
ProbeCoords == { -1000, -1, 0, 1, 8, 9, 1000 }
ProbeSpeeds == { -7, -1, 0, 4 }

\* C15: per particle and axis, a position below 0 becomes eps and the velocity
\* +0.5|v|, a position above L becomes L - eps and the velocity -0.5|v|, anything
\* else is left as it is, for any penetration depth: for every particle a step
\* integrates, and for every probed position and velocity in that step's domain
C15_ReflectiveBoundary ==
    [][ StepRan =>
          /\ \A i \in Counted : \A a \in Axes :
                ReflectionRule(Unreflected(i).pos[a], Unreflected(i).vel[a],
                               domain_size[a],
                               particles'.positions[i][a], particles'.velocities[i][a])
          /\ \A p \in ProbeCoords : \A v \in ProbeSpeeds : \A a \in Axes :
                LET pos == [k \in Axes |-> IF k = a THEN p ELSE 0]
                    vel == [k \in Axes |-> IF k = a THEN v ELSE 3]
                    r == apply_boundary_conditions(pos, vel, domain_size)
                IN  \A k \in Axes :
                        ReflectionRule(pos[k], vel[k], domain_size[k], r.pos[k], r.vel[k])
      ]_vars

\* a step has reflected a particle that fell through the lower wall with a speed
\* of 2 or more: it lies at eps and moves upward at half that speed
C15_Witness ==
    /\ call.op = "step"
    /\ call.raised = "none"
    /\ \E i \in Counted : \E a \in Axes :
         /\ particles.positions[i][a] = Epsilon
         /\ particles.velocities[i][a] >= 1

\* C16: after a step in which a live particle receives a nonzero force, its
\* position has moved by dt times its velocity after the step
C16_SemiImplicitVisible ==
    [][ StepRan =>
          \A i \in Counted \cap Live :
              particles'.forces[i] # Zero3 =>
                  \A a \in Axes :
                      particles'.positions[i][a] - particles.positions[i][a]
                          = particles'.velocities[i][a] * dt
      ]_vars

\* the step's integration leaves particle i within the walls of axis a: the
\* reflection does not act on it
NotReflected(i, a) ==
    /\ 0 <= Unreflected(i).pos[a]
    /\ Unreflected(i).pos[a] <= domain_size[a]

\* C16 as amended: the position has moved by dt times the velocity after the
\* step on every axis on which the step did not reflect the particle
C16_SemiImplicitUnlessReflected ==
    [][ StepRan =>
          \A i \in Counted \cap Live :
              particles'.forces[i] # Zero3 =>
                  \A a \in Axes :
                      NotReflected(i, a) =>
                          particles'.positions[i][a] - particles.positions[i][a]
                              = particles'.velocities[i][a] * dt
      ]_vars

\* a step has given a live particle a nonzero force and moved it, unreflected,
\* by its new velocity, which on one axis is nonzero
C16_Witness ==
    /\ call.op = "step"
    /\ call.raised = "none"
    /\ \E i \in Counted \cap Live :
         /\ particles.forces[i] # Zero3
         /\ particles.velocities[i] # Zero3
         /\ \A a \in Axes :
              /\ particles.positions[i][a] # Epsilon
              /\ particles.positions[i][a] # domain_size[a] - Epsilon
              /\ particles.positions[i][a] - particles.velocities[i][a] * dt >= 0
              /\ particles.positions[i][a] - particles.velocities[i][a] * dt <= domain_size[a]

\* step() can run its three phases over slots of the store
StepRuns == n_active > 0 /\ n_active <= particles.max_particles /\ h # 0

\* C17: the step's result is that of four separate passes over all particles:
\* densities and pressures from the positions before the step, forces from those
\* densities and the positions and velocities before the step, the velocity and
\* position update of every particle, then the reflection of every particle
C17_PhaseOrder ==
    StepRuns =>
        LET grid == build(spatial_grid, particles.positions, n_active, h)
            rho == [i \in Slots(particles) |->
                      IF i < n_active
                      THEN density_of(particles, grid, i, h, rest_density)
                      ELSE particles.densities[i]]
            P1 == [particles EXCEPT
                      !.densities = rho,
                      !.pressures = [i \in Slots(particles) |->
                          IF i < n_active
                          THEN pressure_of(rho[i], rest_density, gas_constant)
                          ELSE particles.pressures[i]]]
            P2 == [P1 EXCEPT !.forces = [i \in Slots(P1) |->
                      IF i < n_active THEN force_of(P1, grid, i, h, gravity)
                      ELSE P1.forces[i]]]
            moved == [i \in Slots(P2) |->
                      IF i < n_active THEN advance_particle(P2, i, dt)
                      ELSE [pos |-> P2.positions[i], vel |-> P2.velocities[i]]]
            reflected == [i \in Slots(P2) |->
                      IF i < n_active
                      THEN apply_boundary_conditions(moved[i].pos, moved[i].vel, domain_size)
                      ELSE moved[i]]
            P4 == [P2 EXCEPT !.positions = [i \in Slots(P2) |-> reflected[i].pos],
                             !.velocities = [i \in Slots(P2) |-> reflected[i].vel]]
        IN  step_in_place = [ particles |-> P4, grid |-> grid, time |-> time + dt,
                              step_count |-> step_count + 1, raised |-> "none" ]

\* a step has run over two particles, one of which received a force from the
\* other and one of which was reflected
C17_Witness ==
    /\ call.op = "step"
    /\ call.raised = "none"
    /\ n_active >= 2
    /\ step_count > 0
    /\ \E i \in Counted : particles.forces[i] # VScale(gravity, particles.masses[i])
    /\ \E j \in Counted : \E a \in Axes : particles.positions[j][a] = Epsilon

\* the step the actions take is the step of the loops
StepAsLoops == StepRuns => step = step_in_place

\* the keys of the dictionary get_info is to return, and of its grid statistics
InfoKeys ==
    { "time", "step", "particles", "avg_density", "avg_pressure",
      "avg_velocity", "max_velocity", "grid_info" }
GridInfoKeys == { "num_cells", "avg_particles_per_cell", "max_particles_per_cell" }

\* C18: in every solver state get_info() returns the time, the step count, the
\* live count, the mean density, pressure and speed, the maximum speed and the
\* statistics of the spatial index; time, step and live count are the solver's
C18_InfoComplete ==
    call.op = "get_info" =>
        /\ InfoKeys \subseteq DOMAIN call.ret
        /\ GridInfoKeys \subseteq DOMAIN call.ret.grid_info
        /\ call.ret.time = time
        /\ call.ret.step = step_count
        /\ call.ret.particles = N

\* the state C18 fails in: get_info() on a solver that holds no particle has
\* returned a dictionary without maximum speed and index statistics
C18_EmptyInfoShort ==
    /\ call.op = "get_info"
    /\ N = 0
    /\ n_active = 0
    /\ "max_velocity" \notin DOMAIN call.ret
    /\ "grid_info" \notin DOMAIN call.ret

\* on a solver that counts a particle the dictionary is complete and reports the
\* solver's time, step counter and count of particles
InfoOfActive ==
    (call.op = "get_info" /\ n_active > 0) =>
        /\ InfoKeys \subseteq DOMAIN call.ret
        /\ GridInfoKeys \subseteq DOMAIN call.ret.grid_info
        /\ call.ret.time = time
        /\ call.ret.step = step_count
        /\ call.ret.particles = n_active

\* the number of particles the last call placed
Placed == N - call.n_before

\* the count min(n, nx * ny * nz) of the box b
LatticeCount(b) ==
    LET lat == box_lattice(b.size, b.n_particles)
    IN  Min(b.n_particles, lat.nx * lat.ny * lat.nz)

\* the particles the last call placed are the first `Placed` lattice sites of
\* box b in lexicographic order of (i, j, k), each moved by a jitter and clipped
InLexicographicOrder(b) ==
    LET lat == box_lattice(b.size, b.n_particles)
    IN  \A c \in 0..(Placed - 1) :
            \E i \in 0..(lat.nx - 1), j \in 0..(lat.ny - 1), k \in 0..(lat.nz - 1) :
                /\ i * lat.ny * lat.nz + j * lat.nz + k = c
                /\ \E offset \in Jitters(lat.spacing) :
                     particles.positions[call.n_before + c]
                         = [a \in Axes |->
                              Clip(b.position[a] + <<i, j, k>>[a] * lat.spacing + offset[a],
                                   0, domain_size[a])]

C20_BoxParticles ==
    call.op = "add_fluid_box" =>
        \A s \in call.n_before..(N - 1) :
            /\ \A a \in Axes :
                 /\ 0 <= particles.positions[s][a]
                 /\ particles.positions[s][a] <= domain_size[a]
            /\ particles.velocities[s] = Zero3
            /\ particles.masses[s] = particle_mass
            /\ particles.viscosities[s] =
                 (IF "viscosity" \in DOMAIN call.arg.fluid_properties
                  THEN call.arg.fluid_properties.viscosity ELSE viscosity)
            /\ particles.colors[s] =
                 (IF "color" \in DOMAIN call.arg.fluid_properties
                  THEN call.arg.fluid_properties.color ELSE <<2, 5, 10>>)

\* a call has inserted a particle of a box whose corner lies outside the domain:
\* it lies on the walls x = 0 and y = L, with the bundle's viscosity and the
\* default colour
C20_Witness ==
    /\ call.op = "add_fluid_box"
    /\ Placed = 1
    /\ call.arg.position[1] < 0
    /\ particles.positions[N - 1][1] = 0
    /\ particles.positions[N - 1][2] = domain_size[2]
    /\ particles.positions[N - 1][3] # call.arg.position[3]
    /\ particles.viscosities[N - 1] = 2
    /\ particles.colors[N - 1] = <<2, 5, 10>>

-----------------------------------------------------------------------------
(* C30: the vectorized kernels against the scalar kernels *)

\* the scalar kernels applied to row e of the array of the last vectorized call
ScalarOfRow(e) ==
    LET r == call.arg.r_vectors[e]
    IN  [ poly6 |-> poly6(r, call.arg.h),
          spiky_gradient |-> spiky_gradient_in(r, call.arg.h, ThresholdsPerMicrometre),
          viscosity_laplacian |-> viscosity_laplacian(r, call.arg.h) ]

\* C30: each vectorized kernel returns, for every row of its array, the value
\* the scalar kernel of the same name returns for that row (rows of length
\* exactly h and exactly the singularity threshold included).
C30_VectorizedAgree ==
    call.op = "VectorizedKernels" =>
        /\ call.ret.poly6.raised = "none"
        /\ call.ret.spiky_gradient.raised = "none"
        /\ call.ret.viscosity_laplacian.raised = "none"
        /\ \A e \in DOMAIN call.arg.r_vectors :
            /\ call.ret.poly6.value[e] = ScalarOfRow(e).poly6
            /\ call.ret.spiky_gradient.value[e] = ScalarOfRow(e).spiky_gradient
            /\ call.ret.viscosity_laplacian.value[e] = ScalarOfRow(e).viscosity_laplacian

\* a one-row array whose row has exactly the threshold length: the scalar
\* Spiky gradient takes the non-zero branch, the vectorized one returns zero
C30_ThresholdBranchDiffers ==
    /\ call.op = "VectorizedKernels"
    /\ Len(call.arg.r_vectors) = 1
    /\ Dot(call.arg.r_vectors[1], call.arg.r_vectors[1]) = 1
    /\ call.ret.spiky_gradient.raised = "none"
    /\ call.ret.spiky_gradient.value[1] = Zero3
    /\ ScalarOfRow(1).spiky_gradient # Zero3

\* two rows inside the support: the vectorized Spiky gradient raises
SpikyVectorizedRaises ==
    /\ call.op = "VectorizedKernels"
    /\ Len(call.arg.r_vectors) = 2
    /\ call.ret.spiky_gradient.raised = "ValueError"

\* three rows inside the support: the vectorized Spiky gradient returns a row
\* that differs from the scalar one although none has the threshold length
SpikyVectorizedMisscaled ==
    /\ call.op = "VectorizedKernels"
    /\ call.ret.spiky_gradient.raised = "none"
    /\ \A e \in DOMAIN call.arg.r_vectors :
        Dot(call.arg.r_vectors[e], call.arg.r_vectors[e]) # 1
    /\ \E e \in DOMAIN call.arg.r_vectors :
        call.ret.spiky_gradient.value[e] # ScalarOfRow(e).spiky_gradient

\* the vectorized Poly6 and viscosity Laplacian agree with the scalar ones on
\* every row, and so does the vectorized Spiky gradient on an array of which at
\* most one row lies in the support and above the threshold and none has
\* exactly the threshold length
VectorizedAgreeElsewhere ==
    call.op = "VectorizedKernels" =>
        /\ \A e \in DOMAIN call.arg.r_vectors :
            /\ call.ret.poly6.value[e] = ScalarOfRow(e).poly6
            /\ call.ret.viscosity_laplacian.value[e] = ScalarOfRow(e).viscosity_laplacian
        /\ (/\ Len(Selected(SpikyMask(call.arg.r_vectors, call.arg.h,
                                      ThresholdsPerMicrometre), 1)) <= 1
            /\ \A e \in DOMAIN call.arg.r_vectors :
                Dot(call.arg.r_vectors[e], call.arg.r_vectors[e]) # 1)
           => /\ call.ret.spiky_gradient.raised = "none"
              /\ \A e \in DOMAIN call.arg.r_vectors :
                    call.ret.spiky_gradient.value[e] = ScalarOfRow(e).spiky_gradient

-----------------------------------------------------------------------------
(* C25: the frame of step() and run() *)

\* a transition made by step() or inside run()
StepOrRun == Step \/ RunBegin \/ RunStep \/ RunCallback

\* C25: step() and run() change neither the live particle count, nor any
\* particle's mass, viscosity or colour, nor a global parameter (extents, h,
\* rest density, gas constant, viscosity, gravity, time step, particle mass,
\* capacity), nor the solver's own particle count.
C25_FrameOfStepAndRun ==
    [][ StepOrRun =>
          /\ particles'.n_particles = particles.n_particles
          /\ particles'.max_particles = particles.max_particles
          /\ particles'.masses = particles.masses
          /\ particles'.viscosities = particles.viscosities
          /\ particles'.colors = particles.colors
          /\ solver_params' = solver_params
          /\ n_active' = n_active
      ]_vars

\* a run of two steps or more has returned, on a solver with a particle that a
\* step has stopped at a wall, and with a second live particle of another mass
C25_Witness ==
    /\ call.op = "run"
    /\ call.raised = "none"
    /\ run_frame.executed >= 2
    /\ n_active >= 1
    /\ particles.n_particles >= 2
    /\ particles.masses[0] # particles.masses[1]
    /\ \E i \in Counted : \E a \in Axes : particles.positions[i][a] = Epsilon

\* a single step() has moved a particle
C25_StepMoved ==
    /\ call.op = "step"
    /\ call.raised = "none"
    /\ step_count > 0
    /\ \E i \in Counted : particles.velocities[i] # Zero3

-----------------------------------------------------------------------------
(* C28: the store under any integer index *)

\* C28: after any add_particle and remove_particle calls, with any integer as
\* the index, the live count lies in 0..max_particles and a remove_particle
\* call has written no slot but the one its index names.
C28_StoreBounds ==
    /\ 0 <= particles.n_particles
    /\ particles.n_particles <= particles.max_particles
    /\ call.op = "remove_particle" =>
          \A s \in Slots(particles) :
              s # PyIndex(call.arg, particles.max_particles) =>
                  Record(particles, s) = Record(call.before, s)

\* remove_particle(-1) has returned normally on an empty store: the live count
\* is negative
C28_NegativeCount ==
    /\ call.op = "remove_particle"
    /\ call.raised = "none"
    /\ call.arg = -1
    /\ call.n_before = 0
    /\ particles.n_particles = -1

\* a remove_particle call with a negative index has copied the last live
\* record into a slot that was not live
NegativeIndexOverwrites ==
    /\ call.op = "remove_particle"
    /\ call.arg < 0
    /\ call.n_before > 0
    /\ PyIndex(call.arg, particles.max_particles) >= call.n_before
    /\ Record(particles, PyIndex(call.arg, particles.max_particles))
         # Record(call.before, PyIndex(call.arg, particles.max_particles))

\* the count never exceeds the capacity; a call with an index >= 0 on a store
\* whose count is in 0..max_particles leaves the count there; and no
\* remove_particle call writes a slot other than the one its index names
StoreBoundsForIndexFromZero ==
    /\ particles.n_particles <= particles.max_particles
    /\ (/\ call.op \in {"add_particle", "remove_particle"}
        /\ call.arg >= 0
        /\ call.n_before >= 0)
       => particles.n_particles >= 0
    /\ call.op = "remove_particle" =>
          \A s \in Slots(particles) :
              s # PyIndex(call.arg, particles.max_particles) =>
                  Record(particles, s) = Record(call.before, s)

-----------------------------------------------------------------------------
(* C29: the statistics of the spatial index in get_info *)

\* C29: after any add_fluid_box and step calls, get_info() on an Active solver
\* reports as grid_info.num_particles the live particle count; and the grid a
\* step has built holds as many indices as positions were passed to build.
C29_GridInfoCurrent ==
    /\ (call.op = "get_info" /\ n_active > 0) =>
          call.ret.grid_info.num_particles = N
    /\ (call.op = "step" /\ call.raised = "none" /\ n_active > 0) =>
          get_cells_info(spatial_grid).num_particles = Min(n_active, particles.max_particles)

\* get_info() on a solver that holds a particle and has not stepped since the
\* particle was placed: the statistics count fewer particles than are live
C29_StaleGridInfo ==
    /\ call.op = "get_info"
    /\ n_active > 0
    /\ N = n_active
    /\ call.ret.particles = N
    /\ call.ret.grid_info.num_particles < N

\* the statistics are those of the grid of the last step: right after a step
\* that ran they count the solver's particles, and they never count more
GridInfoOfLastStep ==
    /\ get_cells_info(spatial_grid).num_particles <= n_active
    /\ (call.op = "step" /\ call.raised = "none" /\ n_active > 0) =>
          get_cells_info(spatial_grid).num_particles = Min(n_active, particles.max_particles)
    /\ call.op = "get_info" /\ n_active > 0 =>
          call.ret.grid_info = get_cells_info(spatial_grid)

-----------------------------------------------------------------------------
(* C27: the capacity reached part-way through a box *)

\* the last call was add_fluid_box with a box of more lattice sites than the
\* store had room for
BoxBeyondRoom ==
    /\ call.op = "add_fluid_box"
    /\ call.arg.n_particles >= 1
    /\ call.n_before + LatticeCount(call.arg) > particles.max_particles

\* C27: when add_fluid_box reaches the capacity part-way through a box, the
\* call raises the Capacity error, the particles placed before it stay live,
\* and afterwards the solver's count equals the store's live count, which
\* equals the capacity.
C27_CapacityMidBox ==
    BoxBeyondRoom =>
        /\ call.raised = "RuntimeError"
        /\ N = particles.max_particles
        /\ Placed = particles.max_particles - call.n_before
        /\ n_active = N

\* add_fluid_box has raised part-way through a box on a store that had been
\* appended to directly: the store is full and the solver counts fewer
C27_SolverCountsFewer ==
    /\ BoxBeyondRoom
    /\ call.raised = "RuntimeError"
    /\ Placed >= 1
    /\ N = particles.max_particles
    /\ n_active < N

\* the error is raised, the store is filled up to its capacity and the solver's
\* count has grown by the number of particles placed, whatever it was before
CapacityMidBoxByPlaced ==
    BoxBeyondRoom =>
        /\ call.raised = "RuntimeError"
        /\ N = particles.max_particles
        /\ Placed = particles.max_particles - call.n_before
        /\ n_active >= Placed
        /\ n_active <= N

-----------------------------------------------------------------------------
(* C26: the particle itself among its candidates *)

\* the sum of f over the set S
RECURSIVE SetSum(_, _)
SetSum(S, f) ==
    IF S = {} THEN 0
    ELSE LET j == CHOOSE x \in S : TRUE IN f[j] + SetSum(S \ {j}, f)

\* the last call was a step that ran its passes
Stepped == call.op = "step" /\ call.raised = "none" /\ n_active > 0

\* the candidate list the passes of the last step summed for particle i
Candidates(i) == get_neighbors(spatial_grid, call.before.positions[i], h)

\* the store as the density pass of the last step left it
AfterDensityPass ==
    [call.before EXCEPT !.densities = particles.densities,
                        !.pressures = particles.pressures]

-----------------------------------------------------------------------------
(* C21: compact support of the kernels *)

\* |r| > h, on the squares
Farther(r, hh) == Dot(r, r) > hh * hh

\* displacements with components of up to three units, smoothing lengths 1 to 3
SupportProbes == [Axes -> -3..3]
SupportLengths == 1..3

\* C21: for every displacement r with |r| > h the Poly6 value, the Spiky
\* gradient and the viscosity Laplacian are exactly zero; and in a step, a
\* candidate j of particle i that lies farther than h from i adds nothing to
\* the density of i nor to the pressure and viscosity force on i.
C21_CompactSupport ==
    Stepped =>
        /\ \A r \in SupportProbes : \A hh \in SupportLengths :
              Farther(r, hh) =>
                  /\ poly6(r, hh) = 0
                  /\ spiky_gradient(r, hh) = Zero3
                  /\ spiky_gradient_in(r, hh, ThresholdsPerMicrometre) = Zero3
                  /\ viscosity_laplacian(r, hh) = 0
        /\ \A i \in Counted : \A q \in DOMAIN Candidates(i) :
              LET j == Candidates(i)[q]
                  r == VSub(call.before.positions[i], call.before.positions[j])
              IN  Farther(r, h) =>
                      /\ call.before.masses[j] * poly6(r, h) = 0
                      /\ pressure_term(AfterDensityPass, i, j, h) = Zero3
                      /\ viscosity_term(AfterDensityPass, i, j, h) = Zero3

\* a step has summed, for a particle, a candidate farther than h that has a
\* mass, a density and a pressure of its own
C21_Witness ==
    /\ Stepped
    /\ \E i \in Counted : \E q \in DOMAIN Candidates(i) :
          LET j == Candidates(i)[q]
          IN  /\ Farther(VSub(call.before.positions[i], call.before.positions[j]), h)
              /\ call.before.masses[j] > 0
              /\ particles.densities[j] > 0
              /\ particles.pressures[i] + particles.pressures[j] # 0

-----------------------------------------------------------------------------
(* C23: the order of the particles within a pass *)

Phases == {"density", "force", "integrate"}

\* C23: in each of the three passes of a step, the work for particle i writes
\* only the slots of particle i, its result for i does not depend on whether
\* another particle was processed before it, and the pass run over the
\* particles in any order ends with the store the loop as written ends with;
\* the step returns the store the last pass ends with.
C23_OrderWithinPass ==
    StepRuns =>
        LET grid == build(spatial_grid, particles.positions, n_active, h)
            d == density_loop(particles, grid, 0, n_active, h, rest_density, gas_constant)
            z == [d EXCEPT !.forces = [i \in Slots(d) |->
                                         IF i < n_active THEN Zero3 ELSE d.forces[i]]]
            f == forces_loop(z, grid, 0, n_active, h, gravity)
            m == integrate_loop(f, 0, n_active, dt, domain_size)
            PassInput == [phase \in Phases |->
                            CASE phase = "density"   -> particles
                              [] phase = "force"     -> z
                              [] phase = "integrate" -> f]
            PassOutput == [phase \in Phases |->
                            CASE phase = "density"   -> d
                              [] phase = "force"     -> f
                              [] phase = "integrate" -> m]
        IN  /\ \A phase \in Phases :
                /\ \A i \in Counted :
                      LET alone == iteration(phase, PassInput[phase], grid, i)
                      IN  /\ \A s \in Slots(particles) \ {i} :
                                Record(alone, s) = Record(PassInput[phase], s)
                          /\ \A j \in Counted \ {i} :
                                Record(iteration(phase,
                                           iteration(phase, PassInput[phase], grid, j),
                                           grid, i), i)
                                  = Record(alone, i)
                /\ \A order \in Orders(n_active) :
                      pass(phase, PassInput[phase], grid, order, 1) = PassOutput[phase]
            /\ step.particles = m

\* a step has run over two particles or more, one of which received a force
\* from another
C23_Witness ==
    /\ Stepped
    /\ n_active >= 2
    /\ \E i \in Counted :
          particles.forces[i] # VScale(gravity, call.before.masses[i])
    /\ \E j \in Counted : particles.positions[j] # call.before.positions[j]

-----------------------------------------------------------------------------
(* C24: the spatial index is fresh when it is queried *)

\* every get_neighbors call of the coming step is made on a grid that is the
\* build of the first k of the positions the store holds at the call, with the
\* store's positions and live count as they were when the grid was built
QueriesSeeBuildOf(k) ==
    \A e \in DOMAIN step_queries :
        /\ step_queries[e].grid = build(EmptyGrid, step_queries[e].positions, k, h)
        /\ step_queries[e].positions = particles.positions
        /\ step_queries[e].live = N

\* C24: in every step the grid is rebuilt from the current positions of all
\* live particles before the first neighbour query, and neither a position nor
\* the live count changes between the rebuild and the last query of the step.
C24_GridFresh ==
    StepRuns =>
        /\ step.grid = build(EmptyGrid, particles.positions, N, h)
        /\ Len(step_queries) = 2 * N
        /\ QueriesSeeBuildOf(N)

\* a step has run and has left a grid that lacks a live particle
C24_LiveNotIndexed ==
    /\ Stepped
    /\ spatial_grid = build(EmptyGrid, call.before.positions, n_active, h)
    /\ \E i \in Live :
          \A c \in DOMAIN spatial_grid : Occurrences(i, spatial_grid[c]) = 0

\* the same for the particles the solver counts: the grid is rebuilt from the
\* positions of the first n_active slots, whatever it held before, and each of
\* these particles queries it once in the density pass and once in the force
\* pass, with no position or count changed since the rebuild
GridFreshForCounted ==
    StepRuns =>
        /\ step.grid = build(EmptyGrid, particles.positions, n_active, h)
        /\ Len(step_queries) = 2 * n_active
        /\ QueriesSeeBuildOf(n_active)

-----------------------------------------------------------------------------
(* C22: free fall of an isolated particle *)

\* the closed form of k semi-implicit Euler steps under gravity alone, from
\* position p0 and velocity v0
FreeFallVelocity(v0, k) == VAdd(v0, VScale(gravity, k * dt))

FreeFallPosition(p0, v0, k) ==
    VAdd(VAdd(p0, VScale(v0, k * dt)), VScale(gravity, dt * dt * ((k * (k + 1)) \div 2)))

\* k = call.steps step() calls have been made on the one live particle and none
\* of them has moved it across a wall
Falling ==
    /\ call.op = "step"
    /\ call.raised = "none"
    /\ N = 1
    /\ ~call.crossed

\* C22: for a single live particle the force computed by each step is mass * g,
\* and as long as it crosses no wall, after k steps its velocity is
\* v0 + k g dt and its position p0 + k v0 dt + g dt^2 k (k + 1) / 2.
C22_FreeFall ==
    Falling =>
        /\ particles.forces[0] = VScale(gravity, particles.masses[0])
        /\ particles.velocities[0] = FreeFallVelocity(call.origin.velocity, call.steps)
        /\ particles.positions[0]
              = FreeFallPosition(call.origin.position, call.origin.velocity, call.steps)

\* the one live particle was placed through the store, step() has been called
\* on it and it has neither a force nor a new velocity nor a new position
C22_LiveNotFalling ==
    /\ Falling
    /\ n_active = 0
    /\ call.steps = MaxFallSteps
    /\ particles.forces[0] = Zero3
    /\ particles.velocities[0] = call.origin.velocity
    /\ particles.positions[0] = call.origin.position

\* the same for a particle the solver counts
FreeFallOfCounted ==
    Falling /\ n_active = 1 =>
        /\ particles.forces[0] = VScale(gravity, particles.masses[0])
        /\ particles.velocities[0] = FreeFallVelocity(call.origin.velocity, call.steps)
        /\ particles.positions[0]
              = FreeFallPosition(call.origin.position, call.origin.velocity, call.steps)

\* a counted particle has fallen for MaxFallSteps steps without crossing a wall
CountedHasFallen ==
    /\ Falling
    /\ n_active = 1
    /\ call.steps = MaxFallSteps
    /\ particles.positions[0] # call.origin.position

====
